---- MODULE Spec2Model ----
(***************************************************************************)
(* Word-level arithmetic-coding text compressor                            *)
(* (src/utilities/compressor.py): the ArithmeticCoder engine, the          *)
(* TextCompressor vocabulary model and the container format.               *)
(*                                                                         *)
(* Representation.  A text, a token and a word are sequences of one-       *)
(* character strings; bytes are integers 0..255; a Python dict is a        *)
(* function, except cum_freq, which is kept as the sequence of its items   *)
(* in insertion order because decode iterates over it.  A call's outcome   *)
(* is a record with a status: "ok" (the call returned), the name of the    *)
(* Python exception it raised, or "diverges" (the call never returns).     *)
(*                                                                         *)
(* Register width.  The source fixes PRECISION_BITS = 32 and works on      *)
(* unbounded Python integers.  TLC's integers are 32-bit, so the model     *)
(* runs the same arithmetic on a narrower register: PRECISION_BITS is a    *)
(* parameter of the model and MAX_RANGE, HALF, QUARTER and THREE_QUARTERS  *)
(* are derived from it by the source's own formulas.                       *)
(***************************************************************************)
EXTENDS Integers, Sequences, FiniteSets, TLC

VARIABLES
    coder,             \* <<>> (None) or <<c>>, c the ArithmeticCoder object
    word_to_id,        \* TextCompressor.word_to_id
    id_to_word,        \* TextCompressor.id_to_word
    word_frequencies,  \* TextCompressor.word_frequencies
    max_vocab_size,    \* TextCompressor.max_vocab_size
    vocab_file,        \* <<>> (no file) or <<the JSON document at vocab_path>>
    call               \* the last call made and its outcome

vars == <<coder, word_to_id, id_to_word, word_frequencies, max_vocab_size,
          vocab_file, call>>
compressorVars == <<word_to_id, id_to_word, word_frequencies, max_vocab_size,
                    vocab_file>>

(***************************************************************************)
(* Bounds of the model                                                     *)
(***************************************************************************)
PRECISION_BITS == 8
MaxSymbols == 4
MaxData == 2
MaxTextLen == 3
MaxCut == 2

\* The width of the codebook length field of the Huffman container
\* (32 in the source).
LENGTH_BITS == 9

MaxHuffText == 4

(***************************************************************************)
(* Generic helpers                                                         *)
(***************************************************************************)
RECURSIVE Pow2(_)
Pow2(n) == IF n = 0 THEN 1 ELSE 2 * Pow2(n - 1)

Min(S) == CHOOSE x \in S : \A y \in S : x <= y

SeqsUpTo(S, n) == UNION {[1..k -> S] : k \in 0..n}

\* [x] * n
Repeat(x, n) == [i \in 1..n |-> x]

\* Python's a[i:j] for 0 <= i, j: both clipped to the length.
Slice(s, i, j) ==
    IF i >= Len(s) \/ j <= i THEN <<>>
    ELSE SubSeq(s, i + 1, IF j < Len(s) THEN j ELSE Len(s))

(***************************************************************************)
(* ArithmeticCoder: class constants                                        *)
(***************************************************************************)
MAX_RANGE == Pow2(PRECISION_BITS) - 1
HALF == Pow2(PRECISION_BITS - 1)
QUARTER == Pow2(PRECISION_BITS - 2)
THREE_QUARTERS == HALF + QUARTER

(***************************************************************************)
(* ArithmeticCoder.__init__                                                *)
(***************************************************************************)
\* sorted(frequencies.keys())
RECURSIVE SortedKeys(_)
SortedKeys(S) ==
    IF S = {} THEN <<>>
    ELSE <<Min(S)>> \o SortedKeys(S \ {Min(S)})

\* sum(frequencies.values())
RECURSIVE SumValues(_, _)
SumValues(f, keys) ==
    IF keys = <<>> THEN 0 ELSE f[Head(keys)] + SumValues(f, Tail(keys))

TotalOf(frequencies) == SumValues(frequencies, SortedKeys(DOMAIN frequencies))

\* The loop's assignment with the running count left out: every interval
\* starts at 0.
CumEntryFromZero(symbol, cumulative, frequencies) ==
    [symbol |-> symbol, low |-> 0, high |-> frequencies[symbol]]

\* One pass of the constructor's loop: the interval of the next symbol
\* starts at the running cumulative count.
CumEntry(symbol, cumulative, frequencies) ==
    [symbol |-> symbol, low |-> cumulative,
     high |-> cumulative + frequencies[symbol]]

RECURSIVE BuildCumFreq(_, _, _)
BuildCumFreq(frequencies, keys, cumulative) ==
    IF keys = <<>> THEN <<>>
    ELSE <<CumEntry(Head(keys), cumulative, frequencies)>>
         \o BuildCumFreq(frequencies, Tail(keys),
                         cumulative + frequencies[Head(keys)])

NewCoder(frequencies) ==
    [frequencies |-> frequencies,
     total_freq  |-> TotalOf(frequencies),
     cum_freq    |-> BuildCumFreq(frequencies,
                                  SortedKeys(DOMAIN frequencies), 0)]

\* symbol in self.cum_freq
HasSymbol(c, symbol) == \E i \in 1..Len(c.cum_freq) : c.cum_freq[i].symbol = symbol

\* self.cum_freq[symbol]
Interval(c, symbol) ==
    c.cum_freq[CHOOSE i \in 1..Len(c.cum_freq) : c.cum_freq[i].symbol = symbol]

(***************************************************************************)
(* Interval narrowing and renormalization, shared by encode and decode     *)
(***************************************************************************)
\* The upper bound without its `- 1`: the first number of the next
\* symbol's interval.
NarrowHighInclusive(low, high, sym_high, total) ==
    low + (((high - low + 1) * sym_high) \div total)

\* high = low + (range_size * sym_high) // total_freq - 1
NarrowHigh(low, high, sym_high, total) ==
    low + (((high - low + 1) * sym_high) \div total) - 1

\* The lower bound taken one count too high, so that a symbol of frequency
\* 1 gets an interval with no number in it.
NarrowLowPastHigh(low, high, sym_low, total) ==
    low + (((high - low + 1) * (sym_low + 1)) \div total)

\* low = low + (range_size * sym_low) // total_freq
NarrowLow(low, high, sym_low, total) ==
    low + (((high - low + 1) * sym_low) \div total)

\* The branch the renormalization loop takes on (low, high).
RenormCase(low, high) ==
    IF high < HALF THEN "E1"
    ELSE IF low >= HALF THEN "E2"
    ELSE IF low >= QUARTER /\ high < THREE_QUARTERS THEN "E3"
    ELSE "break"

\* What the branch subtracts from the registers before the shift.
RenormOffset(case) ==
    IF case = "E2" THEN HALF ELSE IF case = "E3" THEN QUARTER ELSE 0

\* low = low << 1
ShiftLow(low) == 2 * low

\* high = (high << 1) | 1
ShiftHigh(high) == 2 * high + 1

\* The loop `while True:` leaves only through `break`, which needs
\* low < HALF <= high.  With high < low one of the first two branches always
\* applies and the shift keeps high < low, so the loop never ends.
Diverges(low, high) == high < low

(***************************************************************************)
(* ArithmeticCoder.encode                                                  *)
(***************************************************************************)
\* The bits one pass of the loop appends.
EmitBits(case, pending_bits) ==
    IF case = "E1" THEN <<0>> \o Repeat(1, pending_bits)
    ELSE IF case = "E2" THEN <<1>> \o Repeat(0, pending_bits)
    ELSE <<>>

\* One pass of the encoder's renormalization loop taking branch case.
EncShift(st, case) ==
    [st EXCEPT
        !.bits = st.bits \o EmitBits(case, st.pending_bits),
        !.pending_bits = IF case = "E3" THEN st.pending_bits + 1 ELSE 0,
        !.low = ShiftLow(st.low - RenormOffset(case)),
        !.high = ShiftHigh(st.high - RenormOffset(case)),
        !.shifts = st.shifts + 1]

EncRenormStep(st) == EncShift(st, RenormCase(st.low, st.high))

\* while True: ... low = low << 1; high = (high << 1) | 1
RECURSIVE EncRenorm(_)
EncRenorm(st) ==
    IF Diverges(st.low, st.high) THEN [st EXCEPT !.status = "diverges"]
    ELSE IF RenormCase(st.low, st.high) = "break" THEN st
    ELSE EncRenorm(EncRenormStep(st))

\* The narrowing of [low, high] to the interval iv of a symbol.
EncNarrowTo(st, iv, total) ==
    [st EXCEPT
        !.high = NarrowHigh(st.low, st.high, iv.high, total),
        !.low = NarrowLow(st.low, st.high, iv.low, total)]

\* The body of `for symbol in symbols:` up to the renormalization loop.
EncNarrow(c, st, symbol) == EncNarrowTo(st, Interval(c, symbol), c.total_freq)

EncInit ==
    [low |-> 0, high |-> MAX_RANGE, pending_bits |-> 0, bits |-> <<>>,
     shifts |-> 0, status |-> "ok"]

RECURSIVE EncLoop(_, _, _)
\* The loop goes on with the next symbol unless the pass did not end.
EncContinue(c, symbols, st) ==
    IF st.status # "ok" THEN st ELSE EncLoop(c, symbols, st)

\* for symbol in symbols: ...
EncLoop(c, symbols, st) ==
    IF symbols = <<>> THEN st
    ELSE IF ~HasSymbol(c, Head(symbols)) THEN [st EXCEPT !.status = "ValueError"]
    ELSE IF c.total_freq = 0 THEN [st EXCEPT !.status = "ZeroDivisionError"]
    ELSE EncContinue(c, Tail(symbols), EncRenorm(EncNarrow(c, st, Head(symbols))))

\* The flush without `pending_bits += 1`.
FlushBitsPendingOnly(low, pending_bits) ==
    IF low < QUARTER THEN <<0>> \o Repeat(1, pending_bits)
    ELSE <<1>> \o Repeat(0, pending_bits)

\* Flush remaining bits
FlushBits(low, pending_bits) ==
    IF low < QUARTER THEN <<0>> \o Repeat(1, pending_bits + 1)
    ELSE <<1>> \o Repeat(0, pending_bits + 1)

\* Pad to byte boundary
PadBits(bits) == bits \o Repeat(0, (8 - (Len(bits) % 8)) % 8)

\* byte = (byte << 1) | bits[i + j], j = 0..7
RECURSIVE PackByte(_, _)
PackByte(bits, byte) ==
    IF bits = <<>> THEN byte ELSE PackByte(Tail(bits), 2 * byte + Head(bits))

\* Convert bits to bytes
RECURSIVE PackBytes(_)
PackBytes(bits) ==
    IF bits = <<>> THEN <<>>
    ELSE <<PackByte(SubSeq(bits, 1, 8), 0)>> \o PackBytes(SubSeq(bits, 9, Len(bits)))

\* What encode returns once the loop over the symbols ended in st.
EncodeResult(st) ==
    IF st.status # "ok" THEN [status |-> st.status, data |-> <<>>, final |-> st]
    ELSE [status |-> "ok",
          data |-> PackBytes(PadBits(st.bits \o FlushBits(st.low, st.pending_bits))),
          final |-> st]

\* encode(symbols): [status, data], with the final registers.
Encode(c, symbols) == EncodeResult(EncLoop(c, symbols, EncInit))

(***************************************************************************)
(* ArithmeticCoder.decode                                                  *)
(***************************************************************************)
\* (byte >> i) & 1 for i = 7..0
ByteBits(byte) == [k \in 1..8 |-> (byte \div Pow2(8 - k)) % 2]

\* Convert bytes to bits
RECURSIVE UnpackBits(_)
UnpackBits(data) ==
    IF data = <<>> THEN <<>> ELSE ByteBits(Head(data)) \o UnpackBits(Tail(data))

\* bits[i] if i < len(bits) else 0   (i 0-based)
BitAt(bits, i) == IF i < Len(bits) THEN bits[i + 1] ELSE 0

\* Initialize value from first bits
RECURSIVE InitValue(_, _, _)
InitValue(bits, i, value) ==
    IF i = PRECISION_BITS THEN value
    ELSE InitValue(bits, i + 1, 2 * value + BitAt(bits, i))

\* The scaling without its `- 1`.
ScaledValueNoBias(value, low, high, total) ==
    ((value - low + 1) * total) \div (high - low + 1)

\* scaled_value = ((value - low + 1) * total_freq - 1) // range_size
ScaledValue(value, low, high, total) ==
    (((value - low + 1) * total) - 1) \div (high - low + 1)

\* The items of cum_freq whose interval holds scaled_value.
Hits(c, scaled_value) ==
    {i \in 1..Len(c.cum_freq) :
        /\ c.cum_freq[i].low <= scaled_value
        /\ scaled_value < c.cum_freq[i].high}

\* The first of them in iteration order: its index, or 0 when there is none
\* (found_symbol is None).
FirstOf(hits) == IF hits = {} THEN 0 ELSE Min(hits)

FindSymbol(c, scaled_value) == FirstOf(Hits(c, scaled_value))

\* The pass without `value -= HALF` and `value -= QUARTER`.
DecShiftKeepValue(st, bits, case) ==
    [st EXCEPT
        !.low = ShiftLow(st.low - RenormOffset(case)),
        !.high = ShiftHigh(st.high - RenormOffset(case)),
        !.value = 2 * st.value + BitAt(bits, st.bit_index),
        !.bit_index = st.bit_index + 1,
        !.shifts = st.shifts + 1]

\* One pass of the decoder's renormalization loop taking branch case.
DecShift(st, bits, case) ==
    [st EXCEPT
        !.low = ShiftLow(st.low - RenormOffset(case)),
        !.high = ShiftHigh(st.high - RenormOffset(case)),
        !.value = 2 * (st.value - RenormOffset(case)) + BitAt(bits, st.bit_index),
        !.bit_index = st.bit_index + 1,
        !.shifts = st.shifts + 1]

DecRenormStep(st, bits) == DecShift(st, bits, RenormCase(st.low, st.high))

RECURSIVE DecRenorm(_, _)
DecRenorm(st, bits) ==
    IF Diverges(st.low, st.high) THEN [st EXCEPT !.status = "diverges"]
    ELSE IF RenormCase(st.low, st.high) = "break" THEN st
    ELSE DecRenorm(DecRenormStep(st, bits), bits)

DecInit(bits) ==
    [low |-> 0, high |-> MAX_RANGE, value |-> InitValue(bits, 0, 0),
     bit_index |-> PRECISION_BITS, symbols |-> <<>>, shifts |-> 0,
     status |-> "ok"]

\* symbols.append(found_symbol) and the narrowing to its interval iv
DecNarrowTo(st, iv, total) ==
    [st EXCEPT
        !.symbols = Append(st.symbols, iv.symbol),
        !.high = NarrowHigh(st.low, st.high, iv.high, total),
        !.low = NarrowLow(st.low, st.high, iv.low, total)]

DecNarrow(c, st, idx) == DecNarrowTo(st, c.cum_freq[idx], c.total_freq)

RECURSIVE DecLoop(_, _, _, _)
DecContinue(c, bits, n, st) ==
    IF st.status # "ok" THEN st ELSE DecLoop(c, bits, n, st)

\* One pass of `for _ in range(num_symbols):` with the lookup's result idx;
\* idx = 0 is `if found_symbol is None: break`.
DecSymbol(c, bits, n, st, idx) ==
    IF idx = 0 THEN st
    ELSE DecContinue(c, bits, n - 1, DecRenorm(DecNarrow(c, st, idx), bits))

DecLoop(c, bits, n, st) ==
    IF n <= 0 THEN st
    ELSE DecSymbol(c, bits, n, st,
                   FindSymbol(c, ScaledValue(st.value, st.low, st.high, c.total_freq)))

\* What decode returns once its loop ended in st.
DecodeResult(st) ==
    [status |-> st.status,
     symbols |-> IF st.status = "ok" THEN st.symbols ELSE <<>>,
     final |-> st]

DecodeBits(c, bits, num_symbols) ==
    DecodeResult(DecLoop(c, bits, num_symbols, DecInit(bits)))

\* decode(data, num_symbols): [status, symbols], with the final registers.
Decode(c, data, num_symbols) == DecodeBits(c, UnpackBits(data), num_symbols)

(***************************************************************************)
(* Characters, UTF-8 and the tokenizer (TextCompressor._tokenize)          *)
(***************************************************************************)
\* The characters texts are made of: a lower-case and an upper-case letter,
\* a letter that takes two bytes in UTF-8 ("e'" stands for U+00E9), the
\* apostrophe (which both alternatives of the token pattern accept and
\* which is both an opening and a closing mark of the spacing policy), a
\* closing punctuation mark, and the blank.
Chars == {"a", "A", "e'", "'", ".", " "}

\* str.lower(), character by character
LowerChar(ch) == IF ch = "A" THEN "a" ELSE ch

LowerText(text) == [i \in 1..Len(text) |-> LowerChar(text[i])]

\* [\w']: the letters (those of '<UNK>' included) and the apostrophe
WordClass == {"a", "A", "e'", "U", "N", "K", "'"}

\* [.,!?;:\-\"'()]
PunctClass == {".", ",", "!", "?", ";", ":", "-", "\"", "'", "(", ")"}

\* The length of the longest prefix of s made of characters of class.
RunLen(s, class) ==
    CHOOSE n \in 0..Len(s) :
        /\ \A i \in 1..n : s[i] \in class
        /\ n = Len(s) \/ s[n + 1] \notin class

\* re.findall(r"[\w']+|[.,!?;:\-\"'()]+", s): at each position the first
\* alternative that matches takes its longest run; a character neither
\* accepts is skipped.
RECURSIVE FindAll(_)
FindAll(s) ==
    IF s = <<>> THEN <<>>
    ELSE LET w == RunLen(s, WordClass)
             p == RunLen(s, PunctClass)
             n == IF w > 0 THEN w ELSE p
         IN  IF n = 0 THEN FindAll(Tail(s))
             ELSE <<SubSeq(s, 1, n)>> \o FindAll(SubSeq(s, n + 1, Len(s)))

Tokenize(text) == FindAll(LowerText(text))

\* ch.encode('utf-8')
Utf8Char(ch) ==
    CASE ch = "a" -> <<97>>
      [] ch = "A" -> <<65>>
      [] ch = "e'" -> <<195, 169>>
      [] ch = "'" -> <<39>>
      [] ch = "." -> <<46>>
      [] ch = " " -> <<32>>
      [] ch = "<" -> <<60>>
      [] ch = ">" -> <<62>>
      [] ch = "U" -> <<85>>
      [] ch = "N" -> <<78>>
      [] ch = "K" -> <<75>>

Utf8Chars == {"a", "A", "e'", "'", ".", " ", "<", ">", "U", "N", "K"}

\* word.encode('utf-8')
RECURSIVE Utf8Encode(_)
Utf8Encode(word) ==
    IF word = <<>> THEN <<>>
    ELSE IF Len(word) = 1 THEN Utf8Char(word[1])
    ELSE Utf8Encode(SubSeq(word, 1, Len(word) \div 2))
         \o Utf8Encode(SubSeq(word, (Len(word) \div 2) + 1, Len(word)))

\* The characters whose encoding the bytes start with.
Utf8Prefix(bytes) ==
    {ch \in Utf8Chars :
        /\ Len(Utf8Char(ch)) <= Len(bytes)
        /\ Utf8Char(ch) = SubSeq(bytes, 1, Len(Utf8Char(ch)))}

Utf8Cons(ch, rest) ==
    [ok |-> rest.ok, text |-> IF rest.ok THEN <<ch>> \o rest.text ELSE <<>>]

\* bytes.decode('utf-8'): [ok, text]; not ok is UnicodeDecodeError (a byte
\* sequence that is no UTF-8, such as a two-byte character cut in half).
RECURSIVE Utf8Decode(_)
Utf8DecodeChar(bytes, ch) ==
    Utf8Cons(ch, Utf8Decode(SubSeq(bytes, Len(Utf8Char(ch)) + 1, Len(bytes))))

Utf8DecodeFrom(bytes, hit) ==
    IF hit = {} THEN [ok |-> FALSE, text |-> <<>>]
    ELSE Utf8DecodeChar(bytes, CHOOSE ch \in hit : TRUE)

Utf8Decode(bytes) ==
    IF bytes = <<>> THEN [ok |-> TRUE, text |-> <<>>]
    ELSE Utf8DecodeFrom(bytes, Utf8Prefix(bytes))

(***************************************************************************)
(* TextCompressor.train                                                    *)
(***************************************************************************)
ESCAPE_SYMBOL == 0

UNK == <<"<", "U", "N", "K", ">">>

\* The position of word in the Counter's items, 0 when it has none.
IndexOf(items, word) ==
    FirstOf({i \in 1..Len(items) : items[i].word = word})

\* for text in texts: ... self._tokenize(text): the tokens of all texts
RECURSIVE AllTokens(_)
AllTokens(texts) ==
    IF texts = <<>> THEN <<>>
    ELSE Tokenize(Head(texts)) \o AllTokens(Tail(texts))

\* The positions at which a token occurs for the first time.
FirstAt(tokens) ==
    {i \in 1..Len(tokens) : \A j \in 1..(i - 1) : tokens[j] # tokens[i]}

\* The k-th smallest element of the set P of integers.
NthOf(P, k) == CHOOSE p \in P : Cardinality({q \in P : q < p}) = k - 1

Occurrences(tokens, word) ==
    Cardinality({i \in 1..Len(tokens) : tokens[i] = word})

CounterItem(tokens, at) ==
    [word |-> tokens[at], count |-> Occurrences(tokens, tokens[at])]

\* Counter.update(tokens) on an empty Counter: its items, a word inserted
\* when it is first met and counted at each occurrence.
Counter(tokens) ==
    [k \in 1..Cardinality(FirstAt(tokens)) |->
        CounterItem(tokens, NthOf(FirstAt(tokens), k))]

\* for text in texts: word_counts.update(self._tokenize(text))
CountWords(texts) == Counter(AllTokens(texts))

\* The first item with the largest count.
Best(items) ==
    Min({i \in 1..Len(items) : \A j \in 1..Len(items) : items[j].count <= items[i].count})

Without(items, i) == SubSeq(items, 1, i - 1) \o SubSeq(items, i + 1, Len(items))

\* Counter.most_common(): sorted(items, key=count, reverse=True), which is
\* stable: equal counts keep their insertion order.
RECURSIVE MostCommon(_)
MostCommon(items) ==
    IF items = <<>> THEN <<>>
    ELSE <<items[Best(items)]>> \o MostCommon(Without(items, Best(items)))

\* [... if count >= min_frequency]
RECURSIVE AtLeast(_, _)
AtLeast(items, min_frequency) ==
    IF items = <<>> THEN <<>>
    ELSE (IF Head(items).count >= min_frequency THEN <<Head(items)>> ELSE <<>>)
         \o AtLeast(Tail(items), min_frequency)

\* Python's s[:k]: the first k items, or all but the last -k when k < 0.
SliceTo(s, k) ==
    IF k >= 0 THEN Slice(s, 0, k) ELSE Slice(s, 0, Len(s) + k)

\* The list cut at max_size entries, with no slot kept for the escape.
CommonWordsUncut(items, min_frequency, max_size) ==
    SliceTo(AtLeast(MostCommon(items), min_frequency), max_size)

CommonWords(items, min_frequency, max_size) ==
    SliceTo(AtLeast(MostCommon(items), min_frequency), max_size - 1)

RECURSIVE SumCounts(_)
SumCounts(items) ==
    IF items = <<>> THEN 0 ELSE Head(items).count + SumCounts(Tail(items))

\* sum(c for w, c in word_counts.items() if w not in dict(common_words))
RECURSIVE ExcludedCount(_, _)
ExcludedCount(items, common) ==
    IF items = <<>> THEN 0
    ELSE (IF IndexOf(common, Head(items).word) = 0 THEN Head(items).count ELSE 0)
         + ExcludedCount(Tail(items), common)

\* max(1, unknown_freq // 10)
UnknownFreq(items, common) ==
    IF ExcludedCount(items, common) \div 10 > 1
    THEN ExcludedCount(items, common) \div 10 ELSE 1

WordsOf(common) == {common[i].word : i \in 1..Len(common)}

\* {word: i + 1 for i, (word, _) in enumerate(common_words)}
WordToId(common) == [w \in WordsOf(common) |-> IndexOf(common, w)]

\* {i + 1: word ...} and then id_to_word[ESCAPE_SYMBOL] = '<UNK>'
IdToWord(common) ==
    [i \in {ESCAPE_SYMBOL} \cup (1..Len(common)) |->
        IF i = ESCAPE_SYMBOL THEN UNK ELSE common[i].word]

\* {ESCAPE_SYMBOL: unknown_freq} and word_frequencies[word_to_id[word]] = count
WordFrequencies(items, common) ==
    [i \in {ESCAPE_SYMBOL} \cup (1..Len(common)) |->
        IF i = ESCAPE_SYMBOL THEN UnknownFreq(items, common) ELSE common[i].count]

(***************************************************************************)
(* TextCompressor.save_vocab / load_vocab                                  *)
(***************************************************************************)
Digits == <<"0", "1", "2", "3", "4", "5", "6", "7", "8", "9">>

\* json.dump writes an integer key as its decimal string
RECURSIVE IntToStr(_)
IntToStr(n) ==
    IF n < 10 THEN <<Digits[n + 1]>>
    ELSE IntToStr(n \div 10) \o <<Digits[(n % 10) + 1]>>

DigitValue(d) == (CHOOSE i \in 1..10 : Digits[i] = d) - 1

\* int(k)
RECURSIVE StrToInt(_)
StrToInt(str) ==
    IF Len(str) = 1 THEN DigitValue(str[1])
    ELSE 10 * StrToInt(SubSeq(str, 1, Len(str) - 1)) + DigitValue(str[Len(str)])

\* The document save_vocab writes ('entropy', a float that nothing reads
\* back but the log line, is left out).
JsonDump(w2id, freqs) ==
    [word_to_id |-> w2id,
     word_frequencies |-> [k \in {IntToStr(i) : i \in DOMAIN freqs} |-> freqs[StrToInt(k)]]]

\* The inverse alone, with the '<UNK>' entry left out.
LoadIdToWordNoUnk(w2id) ==
    [i \in {w2id[w] : w \in DOMAIN w2id} |->
        CHOOSE w \in DOMAIN w2id : w2id[w] = i]

\* {int(v): k for k, v in word_to_id.items()} and then [0] = '<UNK>'
LoadIdToWord(w2id) ==
    [i \in {ESCAPE_SYMBOL} \cup {w2id[w] : w \in DOMAIN w2id} |->
        IF i = ESCAPE_SYMBOL THEN UNK ELSE CHOOSE w \in DOMAIN w2id : w2id[w] = i]

\* {int(k): v for k, v in data['word_frequencies'].items()}
LoadFrequencies(jf) ==
    [i \in {StrToInt(k) : k \in DOMAIN jf} |->
        jf[CHOOSE k \in DOMAIN jf : StrToInt(k) = i]]

(***************************************************************************)
(* TextCompressor.compress                                                 *)
(***************************************************************************)
\* word in self.word_to_id
Known(w2id, word) == word \in DOMAIN w2id

\* The symbol ID compress appends for word.
SymbolFor(w2id, word) == IF Known(w2id, word) THEN w2id[word] ELSE ESCAPE_SYMBOL

SymbolsOf(w2id, words) == [i \in 1..Len(words) |-> SymbolFor(w2id, words[i])]

\* The words appended to unknown_words, in order of occurrence.
RECURSIVE UnknownWords(_, _)
UnknownWords(w2id, words) ==
    IF words = <<>> THEN <<>>
    ELSE (IF Known(w2id, Head(words)) THEN <<>> ELSE <<Head(words)>>)
         \o UnknownWords(w2id, Tail(words))

\* unknown_data.append(len(word_bytes)); unknown_data.extend(word_bytes)
SidecarEntry(word_bytes) == <<Len(word_bytes)>> \o word_bytes

SidecarCons(word_bytes, rest) ==
    IF rest.status # "ok" THEN rest
    ELSE [status |-> "ok", data |-> SidecarEntry(word_bytes) \o rest.data]

\* bytearray.append raises ValueError for a value outside range(0, 256).
RECURSIVE Sidecar(_)
SidecarWord(word_bytes, unknown_words) ==
    IF Len(word_bytes) > 255 THEN [status |-> "ValueError", data |-> <<>>]
    ELSE SidecarCons(word_bytes, Sidecar(unknown_words))

Sidecar(unknown_words) ==
    IF unknown_words = <<>> THEN [status |-> "ok", data |-> <<>>]
    ELSE SidecarWord(Utf8Encode(Head(unknown_words)), Tail(unknown_words))

\* (n >> 16) & 0xFF, (n >> 8) & 0xFF, n & 0xFF
Field3(n) == <<(n \div 65536) % 256, (n \div 256) % 256, n % 256>>

\* Header: [num_symbols (3 bytes), encoded_len (3 bytes)]
Header(num_symbols, encoded_len) == Field3(num_symbols) \o Field3(encoded_len)

\* return header + encoded + bytes(unknown_data), when both stages returned
Container(words, symbols, e, side) ==
    IF e.status # "ok" \/ side.status # "ok"
    THEN [status |-> IF e.status # "ok" THEN e.status ELSE side.status,
          words |-> words, symbols |-> symbols, encoded |-> <<>>, data |-> <<>>]
    ELSE [status |-> "ok", words |-> words, symbols |-> symbols,
          encoded |-> e.data,
          data |-> Header(Len(symbols), Len(e.data)) \o e.data \o side.data]

CompressSymbols(c, words, symbols, unknown_words) ==
    Container(words, symbols, Encode(c, symbols), Sidecar(unknown_words))

CompressWords(w2id, c, words) ==
    CompressSymbols(c, words, SymbolsOf(w2id, words), UnknownWords(w2id, words))

\* compress(text) on a compressor with the given word_to_id and coder.
Compress(w2id, cdr, text) ==
    IF cdr = <<>>
    THEN [status |-> "RuntimeError", words |-> <<>>, symbols |-> <<>>,
          encoded |-> <<>>, data |-> <<>>]
    ELSE CompressWords(w2id, cdr[1], Tokenize(text))

(***************************************************************************)
(* TextCompressor.decompress                                               *)
(***************************************************************************)
\* (compressed[0] << 16) | (compressed[1] << 8) | compressed[2]
Parse3(b, at) == b[at + 1] * 65536 + b[at + 2] * 256 + b[at + 3]

\* self.id_to_word.get(symbol, '<UNK>')
WordFor(id2w, symbol) == IF symbol \in DOMAIN id2w THEN id2w[symbol] ELSE UNK

\* words.append(word), then the rest of the loop
WalkCons(word, rest) ==
    IF rest.status # "ok" THEN rest
    ELSE [status |-> "ok", words |-> <<word>> \o rest.words]

\* the same for a word read from unknown_data, which may fail to decode
WalkDecoded(word, rest) ==
    IF ~word.ok THEN [status |-> "UnicodeDecodeError", words |-> <<>>]
    ELSE WalkCons(word.text, rest)

\* for symbol in symbols: the words, pairing each escape symbol with the
\* next length-prefixed entry of unknown_data.
RECURSIVE WalkSymbols(_, _, _, _)
WalkEscape(id2w, symbols, unknown_data, unknown_offset, length) ==
    WalkDecoded(Utf8Decode(Slice(unknown_data, unknown_offset + 1,
                                 unknown_offset + 1 + length)),
                WalkSymbols(id2w, symbols, unknown_data, unknown_offset + 1 + length))

WalkSymbols(id2w, symbols, unknown_data, unknown_offset) ==
    IF symbols = <<>> THEN [status |-> "ok", words |-> <<>>]
    ELSE IF Head(symbols) = ESCAPE_SYMBOL /\ unknown_offset < Len(unknown_data)
    THEN WalkEscape(id2w, Tail(symbols), unknown_data, unknown_offset,
                    unknown_data[unknown_offset + 1])
    ELSE WalkCons(IF Head(symbols) = ESCAPE_SYMBOL THEN UNK
                  ELSE WordFor(id2w, Head(symbols)),
                  WalkSymbols(id2w, Tail(symbols), unknown_data, unknown_offset))

\* Python's `word in string`: word is a substring of string.
IsSubstring(word, string) ==
    \E i \in 0..(Len(string) - Len(word)) : SubSeq(string, i + 1, i + Len(word)) = word

Closing == <<".", ",", "!", "?", ";", ":", "\"", "'", ")">>
Opening == <<"(", "\"", "'">>

\* if i > 0 and word not in '.,!?;:"\')' and
\*    (not words[i-1] or words[i-1] not in '("\''): result += " "
SpaceBefore(words, i) ==
    /\ i > 1
    /\ ~IsSubstring(words[i], Closing)
    /\ (words[i - 1] = <<>> \/ ~IsSubstring(words[i - 1], Opening))

\* Join with smart spacing
RECURSIVE JoinFrom(_, _)
JoinFrom(words, i) ==
    IF i > Len(words) THEN <<>>
    ELSE (IF SpaceBefore(words, i) THEN <<" ">> ELSE <<>>)
         \o words[i] \o JoinFrom(words, i + 1)

Join(words) == JoinFrom(words, 1)

\* What decompress returns from the decoded symbols d and the words w.
Joined(d, w) ==
    IF w.status # "ok"
    THEN [status |-> w.status, text |-> <<>>, words |-> <<>>, symbols |-> d.symbols]
    ELSE [status |-> "ok", text |-> Join(w.words), words |-> w.words,
          symbols |-> d.symbols]

DecompressSymbols(id2w, d, unknown_data) ==
    IF d.status # "ok"
    THEN [status |-> d.status, text |-> <<>>, words |-> <<>>, symbols |-> <<>>]
    ELSE Joined(d, WalkSymbols(id2w, d.symbols, unknown_data, 0))

\* Parse header, slice the two sections, decode symbols
DecompressParsed(id2w, c, compressed, num_symbols, encoded_len) ==
    DecompressSymbols(id2w,
                      Decode(c, Slice(compressed, 6, 6 + encoded_len), num_symbols),
                      Slice(compressed, 6 + encoded_len, Len(compressed)))

\* decompress(compressed) on a compressor with the given id_to_word and coder.
Decompress(id2w, cdr, compressed) ==
    IF cdr = <<>>
    THEN [status |-> "RuntimeError", text |-> <<>>, words |-> <<>>, symbols |-> <<>>]
    ELSE IF Len(compressed) < 6
    THEN [status |-> "ok", text |-> <<>>, words |-> <<>>, symbols |-> <<>>]
    ELSE DecompressParsed(id2w, cdr[1], compressed,
                          Parse3(compressed, 0), Parse3(compressed, 3))

(***************************************************************************)
(* CoderSpec: one ArithmeticCoder object and the calls made on it          *)
(***************************************************************************)
EmptyMap == [x \in {} |-> 0]

\* A table giving the symbols first, first + 1, ... the listed frequencies.
Table(first, freqs) == [s \in first..(first + Len(freqs) - 1) |-> freqs[s - first + 1]]

\* The frequency tables a coder is built from: the two tables of the
\* specification's scenarios, tables whose total is at most QUARTER, just
\* above it and the whole register range, a table with an unused (zero)
\* entry, and the tables without any mass.
Tables ==
    { Table(0, <<1, 3, 2>>),
      Table(1, <<1, 1, 2>>),
      Table(0, <<5, 1, 3, 7>>),
      Table(0, <<QUARTER>>),
      Table(0, <<1, 1, QUARTER - 2>>),
      Table(0, <<2, QUARTER - 1>>),
      Table(0, <<1, 1, 2 * QUARTER - 5>>),
      Table(0, <<1, 1, 4 * QUARTER - 2>>),
      Table(0, <<1, 0, 1>>),
      Table(0, <<0>>),
      EmptyMap }

\* Symbol IDs offered to encode: the IDs of the tables and one beyond them.
SymbolIds == 0..3

SampleBytes == {0, 64, 165, 255}

NoCall == [op |-> "none"]

\* The coder is immutable, so a call's outcome depends on the coder and the
\* arguments alone: the client makes one call on each coder it constructs.
Fresh == coder # <<>> /\ call.op = "new"

CoderInit ==
    /\ coder = <<>>
    /\ word_to_id = EmptyMap
    /\ id_to_word = EmptyMap
    /\ word_frequencies = EmptyMap
    /\ max_vocab_size = 0
    /\ vocab_file = <<>>
    /\ call = NoCall

\* ArithmeticCoder(frequencies)
Construct(frequencies) ==
    /\ coder' = <<NewCoder(frequencies)>>
    /\ call' = [op |-> "new", frequencies |-> frequencies, status |-> "ok"]
    /\ UNCHANGED compressorVars

EncodeRecord(symbols, e) ==
    [op |-> "encode", symbols |-> symbols, status |-> e.status, data |-> e.data]

\* coder.encode(symbols)
EncodeCall(symbols) ==
    /\ Fresh
    /\ call' = EncodeRecord(symbols, Encode(coder[1], symbols))
    /\ UNCHANGED <<coder, compressorVars>>

DecodeRecord(data, num_symbols, d) ==
    [op |-> "decode", data |-> data, num_symbols |-> num_symbols,
     status |-> d.status, symbols |-> d.symbols]

\* coder.decode(data, num_symbols)
DecodeCall(data, num_symbols) ==
    /\ Fresh
    /\ call' = DecodeRecord(data, num_symbols, Decode(coder[1], data, num_symbols))
    /\ UNCHANGED <<coder, compressorVars>>

RoundTripRecord(symbols, e, d) ==
    [op |-> "roundtrip", symbols |-> symbols,
     status |-> IF e.status = "ok" THEN d.status ELSE e.status,
     data |-> e.data,
     decoded |-> IF e.status = "ok" THEN d.symbols ELSE <<>>]

\* decode(data, len(symbols)) on what encode returned
DecodeBack(c, symbols, e) ==
    RoundTripRecord(symbols, e, Decode(c, e.data, Len(symbols)))

\* coder.decode(coder.encode(symbols), len(symbols))
RoundTripCall(symbols) ==
    /\ Fresh
    /\ call' = DecodeBack(coder[1], symbols, Encode(coder[1], symbols))
    /\ UNCHANGED <<coder, compressorVars>>

CoderNext ==
    \/ \E frequencies \in Tables : Construct(frequencies)
    \/ \E symbols \in SeqsUpTo(SymbolIds, MaxSymbols) : EncodeCall(symbols)
    \/ \E data \in SeqsUpTo(SampleBytes, MaxData), n \in 0..MaxSymbols :
          DecodeCall(data, n)
    \/ \E symbols \in SeqsUpTo(SymbolIds, MaxSymbols) : RoundTripCall(symbols)

CoderSpec == CoderInit /\ [][CoderNext]_vars

(***************************************************************************)
(* Spec: one TextCompressor object and the calls made on it                *)
(***************************************************************************)
\* A corpus of 31 tokens: the text ". a '" ten times and the text ".".
CycleCorpus == Repeat(<<".", " ", "a", " ", "'">>, 10) \o << <<".">> >>

\* Training corpora: the empty list, a list whose only string holds no
\* token, two small corpora of words and punctuation, and a corpus large
\* enough for the excluded tokens to weigh more than 1.
Corpora ==
    { <<>>,
      << <<" ">> >>,
      << <<"a", " ", "a", " ", ".">>, <<"a", " ", "e'">>, <<"A", ".", ".">> >>,
      << <<".", " ", "'", " ", ".">>, <<"'", " ", "a">> >>,
      CycleCorpus }

MinFrequencies == {1, 2}

\* max_vocab_size as given to the constructor: 16384 is its default.
MaxVocabSizes == {1, 2, 16384}

\* A text that is one token of 256 bytes.
LongText == Repeat("a", 255 + 1)

Texts == SeqsUpTo(Chars, MaxTextLen) \cup {LongText}

\* The calls that leave the compressor's state as the next call finds it.
StateOps == {"none", "train", "save_vocab", "load_vocab"}

\* TextCompressor(vocab_path, max_vocab_size) with no file at vocab_path
Init ==
    /\ coder = <<>>
    /\ word_to_id = EmptyMap
    /\ id_to_word = EmptyMap
    /\ word_frequencies = EmptyMap
    /\ max_vocab_size \in MaxVocabSizes
    /\ vocab_file = <<>>
    /\ call = NoCall

\* The assignments at the end of train, save_vocab() included.
TrainStore(texts, min_frequency, items, common, frequencies) ==
    /\ word_to_id' = WordToId(common)
    /\ id_to_word' = IdToWord(common)
    /\ word_frequencies' = frequencies
    /\ coder' = <<NewCoder(frequencies)>>
    /\ vocab_file' = <<JsonDump(WordToId(common), frequencies)>>
    /\ call' = [op |-> "train", texts |-> texts, min_frequency |-> min_frequency,
                tokens |-> SumCounts(items), status |-> "ok"]

TrainCommon(texts, min_frequency, items, common) ==
    TrainStore(texts, min_frequency, items, common, WordFrequencies(items, common))

TrainCounts(texts, min_frequency, items) ==
    TrainCommon(texts, min_frequency, items,
                CommonWords(items, min_frequency, max_vocab_size))

\* train(texts, min_frequency)
TrainCall(texts, min_frequency) ==
    /\ call.op \in StateOps
    /\ TrainCounts(texts, min_frequency, CountWords(texts))
    /\ UNCHANGED max_vocab_size

\* save_vocab()
SaveVocabCall ==
    /\ call.op \in StateOps
    /\ vocab_file' = <<JsonDump(word_to_id, word_frequencies)>>
    /\ call' = [op |-> "save_vocab", status |-> "ok"]
    /\ UNCHANGED <<coder, word_to_id, id_to_word, word_frequencies, max_vocab_size>>

\* The assignments of load_vocab from the document it read.
LoadStore(frequencies, w2id) ==
    /\ word_to_id' = w2id
    /\ id_to_word' = LoadIdToWord(w2id)
    /\ word_frequencies' = frequencies
    /\ coder' = <<NewCoder(frequencies)>>
    /\ call' = [op |-> "load_vocab", status |-> "ok"]

\* load_vocab(); open() raises FileNotFoundError when there is no file
LoadVocabCall ==
    /\ call.op \in StateOps
    /\ IF vocab_file = <<>>
       THEN /\ call' = [op |-> "load_vocab", status |-> "FileNotFoundError"]
            /\ UNCHANGED <<coder, word_to_id, id_to_word, word_frequencies>>
       ELSE LoadStore(LoadFrequencies(vocab_file[1].word_frequencies),
                      vocab_file[1].word_to_id)
    /\ UNCHANGED <<max_vocab_size, vocab_file>>

CompressRecord(text, r) ==
    [op |-> "compress", text |-> text, status |-> r.status, words |-> r.words,
     symbols |-> r.symbols, encoded |-> r.encoded, data |-> r.data]

\* A compress that drops the coder when it fails.
CompressCallDropping(text) ==
    /\ call.op \in StateOps
    /\ call' = CompressRecord(text, Compress(word_to_id, coder, text))
    /\ coder' = IF call'.status = "ok" THEN coder ELSE <<>>
    /\ UNCHANGED compressorVars

\* compress(text)
CompressCall(text) ==
    /\ call.op \in StateOps
    /\ call' = CompressRecord(text, Compress(word_to_id, coder, text))
    /\ UNCHANGED <<coder, compressorVars>>

DecompressRecord(text, compressed, r) ==
    [op |-> "decompress", of |-> text, compressed |-> compressed,
     status |-> r.status, text |-> r.text, words |-> r.words,
     symbols |-> r.symbols]

DecompressBytes(text, compressed) ==
    call' = DecompressRecord(text, compressed,
                             Decompress(id_to_word, coder, compressed))

\* The container c that compress returned, its last cut bytes missing.
DecompressCut(text, c, cut) ==
    /\ c.status = "ok"
    /\ cut <= Len(c.data)
    /\ DecompressBytes(text, SubSeq(c.data, 1, Len(c.data) - cut))

\* decompress(compressed), compressed being what compress returned for text
\* with its last cut bytes missing (a container cut short in transit)
DecompressCall(text, cut) ==
    /\ call.op \in StateOps
    /\ DecompressCut(text, Compress(word_to_id, coder, text), cut)
    /\ UNCHANGED <<coder, compressorVars>>

RoundTripTextRecord(text, c, r) ==
    [op |-> "roundtrip", text |-> text, words |-> c.words, symbols |-> c.symbols,
     compressed |-> c.data, compress_status |-> c.status,
     status |-> IF c.status = "ok" THEN r.status ELSE c.status,
     out_text |-> IF c.status = "ok" THEN r.text ELSE <<>>,
     out_words |-> IF c.status = "ok" THEN r.words ELSE <<>>,
     out_symbols |-> IF c.status = "ok" THEN r.symbols ELSE <<>>]

\* decompress(data) on what compress returned
DecompressBack(text, c) ==
    RoundTripTextRecord(text, c, Decompress(id_to_word, coder, c.data))

\* decompress(compress(text))
RoundTripTextCall(text) ==
    /\ call.op \in StateOps
    /\ call' = DecompressBack(text, Compress(word_to_id, coder, text))
    /\ UNCHANGED <<coder, compressorVars>>

Next ==
    \/ \E texts \in Corpora, min_frequency \in MinFrequencies :
          TrainCall(texts, min_frequency)
    \/ SaveVocabCall
    \/ LoadVocabCall
    \/ \E text \in Texts : CompressCall(text)
    \/ \E text \in Texts, cut \in 1..MaxCut : DecompressCall(text, cut)
    \/ \E text \in Texts : RoundTripTextCall(text)

Spec == Init /\ [][Next]_vars

(***************************************************************************)
(* HeaderSpec: the header stage of compress (and its parse in decompress)  *)
(* on the two lengths it reads.  A message of 2^24 tokens is beyond an     *)
(* explicit enumeration of texts; the header depends on the symbols and    *)
(* the payload through len(symbols) and len(encoded) alone.                *)
(***************************************************************************)
\* 16,777,215: the largest value three bytes hold
FIELD_MAX == Pow2(24) - 1

Sizes ==
    {0, 1, 255, 256, 65535, 65536, FIELD_MAX - 1, FIELD_MAX, FIELD_MAX + 1,
     FIELD_MAX + 2, FIELD_MAX + 257, 2 * FIELD_MAX + 2}

HeaderInit ==
    /\ coder = <<>>
    /\ word_to_id = EmptyMap
    /\ id_to_word = EmptyMap
    /\ word_frequencies = EmptyMap
    /\ max_vocab_size = 0
    /\ vocab_file = <<>>
    /\ call = NoCall

\* compress, from `header = bytes([...])` on, for len(symbols) = num_symbols
\* and len(encoded) = encoded_len; then decompress's parse of that header.
HeaderCall(num_symbols, encoded_len) ==
    /\ call' = [op |-> "header", num_symbols |-> num_symbols,
                encoded_len |-> encoded_len, status |-> "ok",
                header |-> Header(num_symbols, encoded_len),
                parsed_symbols |-> Parse3(Header(num_symbols, encoded_len), 0),
                parsed_len |-> Parse3(Header(num_symbols, encoded_len), 3)]
    /\ UNCHANGED <<coder, compressorVars>>

HeaderNext == \E num_symbols \in Sizes, encoded_len \in Sizes :
                  HeaderCall(num_symbols, encoded_len)

HeaderSpec == HeaderInit /\ [][HeaderNext]_vars

(***************************************************************************)
(* ThreadSpec: two threads call encode and decode on one coder.  A step of *)
(* a thread is one pass of `for symbol in symbols:` up to its              *)
(* renormalization loop, one pass of that loop, or the return; the steps   *)
(* of the two threads interleave freely.  low, high, pending_bits, bits,   *)
(* value, bit_index and symbols are locals of the call; self.cum_freq and  *)
(* self.total_freq are read from the shared coder at each step.            *)
(***************************************************************************)
ThreadTables ==
    { Table(0, <<1, 3, 2>>),
      Table(0, <<1, 1, QUARTER - 2>>),
      Table(0, <<1, 1, 4 * QUARTER - 2>>) }

\* The symbol sequences the threads encode, or decode from their code.
ThreadInputs ==
    { <<>>, <<1>>, <<2, 0>>, <<1, 1, 2>>, <<0, 3>>, <<2, 2, 1, 0>> }

Threads == {1, 2}

IdleThread == [pc |-> "idle"]

\* encode(symbols) entered: low = 0, high = MAX_RANGE, pending_bits = 0, bits = []
EncodeThread(symbols) ==
    [kind |-> "encode", pc |-> "symbol", symbols |-> symbols, rest |-> symbols,
     st |-> EncInit, out |-> <<>>]

\* decode(data, num_symbols) entered, up to bit_index = PRECISION_BITS
DecodeThread(data, num_symbols) ==
    [kind |-> "decode", pc |-> "symbol", data |-> data,
     num_symbols |-> num_symbols, rest |-> num_symbols,
     st |-> DecInit(UnpackBits(data)), out |-> <<>>]

\* The call returns (or raises) with result.
Return(th, result) == [th EXCEPT !.pc = "done", !.out = <<result>>]

\* One pass of the renormalization loop of a thread whose registers are
\* shifted to st by the pass; `break` leads to the next symbol, and a loop
\* that can no longer end leaves the thread in it for ever.
RenormPass(th, shifted) ==
    IF Diverges(th.st.low, th.st.high) THEN [th EXCEPT !.pc = "diverged"]
    ELSE IF RenormCase(th.st.low, th.st.high) = "break"
         THEN [th EXCEPT !.pc = "symbol"]
    ELSE [th EXCEPT !.st = shifted]

\* One step of encode on coder c.
EncodeStep(c, th) ==
    IF th.pc = "renorm" THEN RenormPass(th, EncRenormStep(th.st))
    ELSE IF th.rest = <<>> THEN Return(th, EncodeResult(th.st))
    ELSE IF ~HasSymbol(c, Head(th.rest))
         THEN Return(th, EncodeResult([th.st EXCEPT !.status = "ValueError"]))
    ELSE IF c.total_freq = 0
         THEN Return(th, EncodeResult([th.st EXCEPT !.status = "ZeroDivisionError"]))
    ELSE [th EXCEPT !.st = EncNarrow(c, th.st, Head(th.rest)),
                    !.rest = Tail(th.rest), !.pc = "renorm"]

\* The pass of decode's `for _ in range(num_symbols):` that found idx.
DecodeSymbolStep(c, th, idx) ==
    IF idx = 0 THEN Return(th, DecodeResult(th.st))
    ELSE [th EXCEPT !.st = DecNarrow(c, th.st, idx),
                    !.rest = th.rest - 1, !.pc = "renorm"]

\* One step of decode on coder c.
DecodeStep(c, th) ==
    IF th.pc = "renorm"
    THEN RenormPass(th, DecRenormStep(th.st, UnpackBits(th.data)))
    ELSE IF th.rest <= 0 THEN Return(th, DecodeResult(th.st))
    ELSE DecodeSymbolStep(c, th,
            FindSymbol(c, ScaledValue(th.st.value, th.st.low, th.st.high,
                                      c.total_freq)))

\* The registers kept in one place for all calls, as they would be if they
\* were attributes of the coder: a thread works on what the last step of
\* any thread of its kind left there.
ThreadStepShared(c, threads, i) ==
    IF threads[i].kind = "encode"
    THEN EncodeStep(c, [threads[i] EXCEPT !.st =
            IF threads[1].pc \in {"symbol", "renorm"} /\ threads[1].kind = "encode"
            THEN threads[1].st ELSE threads[i].st])
    ELSE DecodeStep(c, threads[i])

\* The next step of thread i.
ThreadStep(c, threads, i) ==
    IF threads[i].kind = "encode" THEN EncodeStep(c, threads[i])
    ELSE DecodeStep(c, threads[i])

ThreadInit ==
    /\ coder \in {<<NewCoder(frequencies)>> : frequencies \in ThreadTables}
    /\ word_to_id = EmptyMap
    /\ id_to_word = EmptyMap
    /\ word_frequencies = EmptyMap
    /\ max_vocab_size = 0
    /\ vocab_file = <<>>
    /\ call = [op |-> "threads", threads |-> [i \in Threads |-> IdleThread]]

\* Thread i calls coder.encode(symbols).
StartEncode(i, symbols) ==
    /\ call.threads[i].pc = "idle"
    /\ call' = [call EXCEPT !.threads[i] = EncodeThread(symbols)]
    /\ UNCHANGED <<coder, compressorVars>>

\* Thread i calls coder.decode(data, len(symbols)) on the code of symbols.
StartDecode(i, symbols, e) ==
    /\ call.threads[i].pc = "idle"
    /\ e.status = "ok"
    /\ call' = [call EXCEPT !.threads[i] = DecodeThread(e.data, Len(symbols))]
    /\ UNCHANGED <<coder, compressorVars>>

\* Thread i is scheduled for one step.
Step(i) ==
    /\ call.threads[i].pc \in {"symbol", "renorm"}
    /\ call' = [call EXCEPT !.threads[i] = ThreadStep(coder[1], call.threads, i)]
    /\ UNCHANGED <<coder, compressorVars>>

ThreadNext ==
    \E i \in Threads :
        \/ \E symbols \in ThreadInputs : StartEncode(i, symbols)
        \/ \E symbols \in ThreadInputs :
              StartDecode(i, symbols, Encode(coder[1], symbols))
        \/ Step(i)

ThreadSpec == ThreadInit /\ [][ThreadNext]_vars

(***************************************************************************)
(* The Huffman codec: lib/Huffman.py, utilities/Compressor.py and          *)
(* utilities/Decompressor.py.  A str is the sequence of its code points:   *)
(* 48 and 49 are the characters '0' and '1' of a bit string, 34 the quote, *)
(* 92 the backslash, 123 and 125 the braces.                               *)
(***************************************************************************)
\* \w and \s among the characters of the texts: a and e-acute; the space
HuffWordClass == {97, 233}

HuffSpaceClass == {32}

\* The length of the match of r'\w+|[^\w\s]|\s+' at the start of s.
MatchLen(s) ==
    IF RunLen(s, HuffWordClass) > 0 THEN RunLen(s, HuffWordClass)
    ELSE IF s[1] \notin HuffSpaceClass THEN 1
    ELSE RunLen(s, HuffSpaceClass)

\* re.findall(r'\w+|[^\w\s]|\s+', text)
RECURSIVE HuffTokenize(_)
HuffTokenize(text) ==
    IF text = <<>> THEN <<>>
    ELSE <<SubSeq(text, 1, MatchLen(text))>>
         \o HuffTokenize(SubSeq(text, MatchLen(text) + 1, Len(text)))

\* len(text.split())
WordCount(text) ==
    Cardinality({i \in 1..Len(text) :
                   /\ text[i] \notin HuffSpaceClass
                   /\ i = 1 \/ text[i - 1] \in HuffSpaceClass})

\* HuffmanNode(symbol, freq, left, right); symbol <<>> is None and kids
\* holds the children that are not None.
HuffmanNode(symbol, freq, kids) == [symbol |-> symbol, freq |-> freq, kids |-> kids]

\* heap[pos] = item, positions counting from 0
Put(heap, pos, item) ==
    [k \in 1..Len(heap) |-> IF k = pos + 1 THEN item ELSE heap[k]]

\* heapq._siftdown(heap, startpos, pos) for newitem; nodes compare by
\* __lt__, that is by freq.
RECURSIVE SiftDown(_, _, _, _)
SiftDown(heap, startpos, pos, newitem) ==
    IF pos > startpos /\ newitem.freq < heap[((pos - 1) \div 2) + 1].freq
    THEN SiftDown(Put(heap, pos, heap[((pos - 1) \div 2) + 1]),
                  startpos, (pos - 1) \div 2, newitem)
    ELSE Put(heap, pos, newitem)

\* The child heapq._siftup moves up: the left one if it is smaller than the
\* right one or alone, else the right one.
SmallerChild(heap, pos) ==
    IF 2 * pos + 2 < Len(heap)
       /\ ~(heap[2 * pos + 2].freq < heap[2 * pos + 3].freq)
    THEN 2 * pos + 2 ELSE 2 * pos + 1

\* heapq._siftup(heap, pos) for newitem, started at startpos
RECURSIVE SiftUp(_, _, _, _)
SiftUp(heap, startpos, pos, newitem) ==
    IF 2 * pos + 1 < Len(heap)
    THEN SiftUp(Put(heap, pos, heap[SmallerChild(heap, pos) + 1]),
                startpos, SmallerChild(heap, pos), newitem)
    ELSE SiftDown(Put(heap, pos, newitem), startpos, pos, newitem)

\* heapq.heapify(heap): _siftup(heap, i) for i = n // 2 - 1 down to 0
RECURSIVE Heapify(_, _)
Heapify(heap, i) ==
    IF i < 0 THEN heap ELSE Heapify(SiftUp(heap, i, i, heap[i + 1]), i - 1)

\* The heap after heapq.heappop(heap), which returned heap[0].
HeapPop(heap) ==
    IF Len(heap) = 1 THEN <<>>
    ELSE SiftUp(Put(SubSeq(heap, 1, Len(heap) - 1), 0, heap[Len(heap)]),
                0, 0, heap[Len(heap)])

\* heapq.heappush(heap, item)
HeapPush(heap, item) == SiftDown(Append(heap, item), 0, Len(heap), item)

\* while len(heap) > 1: left, right = heappop, heappop; heappush(merged)
RECURSIVE MergeNodes(_)
MergeNodes(heap) ==
    IF Len(heap) <= 1 THEN heap
    ELSE MergeNodes(HeapPush(HeapPop(HeapPop(heap)),
                             HuffmanNode(<<>>, heap[1].freq + HeapPop(heap)[1].freq,
                                         <<heap[1], HeapPop(heap)[1]>>)))

Leaves(freq_table) ==
    [i \in 1..Len(freq_table) |->
        HuffmanNode(freq_table[i].word, freq_table[i].count, <<>>)]

\* build_tree(freq_table): <<root>>, or <<>> for None
BuildTree(freq_table) ==
    IF Len(freq_table) = 1
    THEN <<HuffmanNode(<<>>, freq_table[1].count, Leaves(freq_table))>>
    ELSE IF Len(freq_table) = 0 THEN <<>>
    ELSE MergeNodes(Heapify(Leaves(freq_table), (Len(freq_table) \div 2) - 1))

\* build_codebook(node, code): the items of the dict in insertion order
RECURSIVE BuildCodebook(_, _)
BuildCodebook(node, code) ==
    (IF node.symbol # <<>>
     THEN <<[symbol |-> node.symbol, code |-> IF code = <<>> THEN <<48>> ELSE code]>>
     ELSE <<>>)
    \o (IF Len(node.kids) >= 1 THEN BuildCodebook(node.kids[1], Append(code, 48))
        ELSE <<>>)
    \o (IF Len(node.kids) = 2 THEN BuildCodebook(node.kids[2], Append(code, 49))
        ELSE <<>>)

\* train(tokens): the codebook
HuffTrain(tokens) ==
    IF tokens = <<>> THEN <<>>
    ELSE BuildCodebook(BuildTree(Counter(tokens))[1], <<>>)

\* self.codebook[token]
CodeOf(codebook, token) ==
    codebook[CHOOSE i \in 1..Len(codebook) : codebook[i].symbol = token].code

\* encode(tokens) with a codebook that has every token
RECURSIVE HuffEncode(_, _)
HuffEncode(codebook, tokens) ==
    IF tokens = <<>> THEN <<>>
    ELSE CodeOf(codebook, Head(tokens)) \o HuffEncode(codebook, Tail(tokens))

HexDigit(n) == IF n < 10 THEN 48 + n ELSE 87 + n

\* What json.dumps (ensure_ascii) writes for the character c of a string.
JsonChar(c) ==
    IF c \in {34, 92} THEN <<92, c>>
    ELSE IF c > 126
         THEN <<92, 117, HexDigit(c \div 4096), HexDigit((c \div 256) % 16),
                HexDigit((c \div 16) % 16), HexDigit(c % 16)>>
    ELSE <<c>>

RECURSIVE JsonChars(_)
JsonChars(s) == IF s = <<>> THEN <<>> ELSE JsonChar(Head(s)) \o JsonChars(Tail(s))

JsonString(s) == <<34>> \o JsonChars(s) \o <<34>>

RECURSIVE JsonItems(_)
JsonItems(codebook) ==
    IF codebook = <<>> THEN <<>>
    ELSE JsonString(Head(codebook).symbol) \o <<58, 32>>
         \o JsonString(Head(codebook).code)
         \o (IF Len(codebook) > 1 THEN <<44, 32>> ELSE <<>>)
         \o JsonItems(Tail(codebook))

\* json.dumps(self.codebook)
JsonDumps(codebook) == <<123>> \o JsonItems(codebook) \o <<125>>

\* The binary digits of n, without leading zeros.
RECURSIVE ToBin(_)
ToBin(n) == IF n < 2 THEN <<48 + n>> ELSE ToBin(n \div 2) \o <<48 + (n % 2)>>

\* f"{n:0{width}b}": at least width digits, more when n needs more
FormatBin(n, width) == Repeat(48, width - Len(ToBin(n))) \o ToBin(n)

\* "".join(f"{ord(c):08b}" for c in json_str)
CharsToBin(s) ==
    [i \in 1..(8 * Len(s)) |-> FormatBin(s[((i - 1) \div 8) + 1], 8)[((i - 1) % 8) + 1]]

\* int(s, 2) for a non-empty s
RECURSIVE FromBin(_)
FromBin(s) ==
    IF s = <<>> THEN 0
    ELSE 2 * FromBin(SubSeq(s, 1, Len(s) - 1)) + (s[Len(s)] - 48)

\* length_binary + binary
WithLength(binary) == FormatBin(Len(binary), LENGTH_BITS) \o binary

\* serialize_codebook()
SerializeCodebook(codebook) == WithLength(CharsToBin(JsonDumps(codebook)))

\* padding = (8 - (total_bits % 8)) % 8
Padding(total_bits) == (8 - (total_bits % 8)) % 8

\* codebook_binary + padding_binary + encoded_text + ("0" * padding)
FullBinary(codebook_binary, encoded_text, padding) ==
    codebook_binary \o FormatBin(padding, 3) \o encoded_text \o Repeat(48, padding)

HuffFailure(status) ==
    [status |-> status, codebook |-> <<>>, encoded |-> <<>>, binary |-> <<>>]

\* compress_to_binary after train: encode, serialize and assemble
CompressEncoded(codebook, codebook_binary, encoded_text) ==
    [status |-> "ok", codebook |-> codebook, encoded |-> encoded_text,
     binary |-> FullBinary(codebook_binary, encoded_text,
                           Padding(Len(codebook_binary) + 3 + Len(encoded_text)))]

CompressTokens(tokens, codebook) ==
    IF codebook = <<>> THEN HuffFailure("ValueError")
    ELSE CompressEncoded(codebook, SerializeCodebook(codebook),
                         HuffEncode(codebook, tokens))

\* Compressor(Huffman(), max_words).compress_to_binary(text)
CompressToBinary(text, max_words) ==
    IF WordCount(text) > max_words THEN HuffFailure("ValueError")
    ELSE CompressTokens(HuffTokenize(text), HuffTrain(HuffTokenize(text)))

\* chr(int(byte, 2)) for each 8 bits of codebook_binary, the last ones
\* being fewer when its length is no multiple of 8
BinToChars(bits) ==
    [k \in 1..((Len(bits) + 7) \div 8) |-> FromBin(Slice(bits, 8 * (k - 1), 8 * k))]

HexValue(c) == IF c <= 57 THEN c - 48 ELSE IF c <= 70 THEN c - 55 ELSE c - 87

IsHex(c) == c \in (48..57) \cup (65..70) \cup (97..102)

NoString(j) == [ok |-> FALSE, value |-> <<>>, next |-> j]

\* The JSON string whose opening quote is before s[j]: its value and the
\* position after its closing quote.
RECURSIVE ScanString(_, _, _)
ScanString(s, j, acc) ==
    IF j > Len(s) \/ s[j] < 32 THEN NoString(j)
    ELSE IF s[j] = 34 THEN [ok |-> TRUE, value |-> acc, next |-> j + 1]
    ELSE IF s[j] # 92 THEN ScanString(s, j + 1, Append(acc, s[j]))
    ELSE IF j + 1 <= Len(s) /\ s[j + 1] \in {34, 92}
         THEN ScanString(s, j + 2, Append(acc, s[j + 1]))
    ELSE IF j + 5 <= Len(s) /\ s[j + 1] = 117
            /\ \A k \in 2..5 : IsHex(s[j + k])
         THEN ScanString(s, j + 6,
                         Append(acc, 4096 * HexValue(s[j + 2]) + 256 * HexValue(s[j + 3])
                                       + 16 * HexValue(s[j + 4]) + HexValue(s[j + 5])))
    ELSE NoString(j)

ParseString(s, i) ==
    IF i <= Len(s) /\ s[i] = 34 THEN ScanString(s, i + 1, <<>>) ELSE NoString(i)

JsonFailure == [status |-> "JSONDecodeError", codebook |-> <<>>]

RECURSIVE ParseItems(_, _, _)
\* After `"key": "value"`: a comma and the next item, or the closing brace.
AfterValue(s, k, v, acc) ==
    IF ~v.ok THEN JsonFailure
    ELSE IF v.next = Len(s) /\ s[v.next] = 125
         THEN [status |-> "ok",
               codebook |-> Append(acc, [symbol |-> k.value, code |-> v.value])]
    ELSE IF v.next + 1 <= Len(s) /\ s[v.next] = 44 /\ s[v.next + 1] = 32
         THEN ParseItems(s, v.next + 2,
                         Append(acc, [symbol |-> k.value, code |-> v.value]))
    ELSE JsonFailure

AfterKey(s, k, acc) ==
    IF ~k.ok \/ k.next + 1 > Len(s) \/ s[k.next] # 58 \/ s[k.next + 1] # 32
    THEN JsonFailure
    ELSE AfterValue(s, k, ParseString(s, k.next + 2), acc)

ParseItems(s, i, acc) == AfterKey(s, ParseString(s, i), acc)

\* json.loads(json_str) for a document of the form json.dumps writes for a
\* dict of strings; any other text met here starts with a character that
\* begins no JSON value.
JsonLoads(s) ==
    IF s = <<123, 125>> THEN [status |-> "ok", codebook |-> <<>>]
    ELSE IF Len(s) >= 2 /\ s[1] = 123 THEN ParseItems(s, 2, <<>>)
    ELSE JsonFailure

\* The number of bits after which current_code is first in reverse_codebook,
\* 0 when no prefix of bits is.
CodeLen(codebook, bits) ==
    IF \E n \in 1..Len(bits) : \E i \in 1..Len(codebook) :
           codebook[i].code = SubSeq(bits, 1, n)
    THEN Min({n \in 1..Len(bits) : \E i \in 1..Len(codebook) :
                 codebook[i].code = SubSeq(bits, 1, n)})
    ELSE 0

\* reverse_codebook[code]: the last symbol of the codebook with that code
SymbolOf(codebook, code) ==
    codebook[CHOOSE i \in 1..Len(codebook) :
                /\ codebook[i].code = code
                /\ \A j \in (i + 1)..Len(codebook) : codebook[j].code # code].symbol

\* decode(binary_string): the bits are added to current_code until it is a
\* code; bits left over at the end raise ValueError.
RECURSIVE HuffDecode(_, _, _)
HuffDecode(codebook, bits, decoded) ==
    IF bits = <<>> THEN [status |-> "ok", tokens |-> decoded]
    ELSE IF CodeLen(codebook, bits) = 0 THEN [status |-> "ValueError", tokens |-> <<>>]
    ELSE HuffDecode(codebook,
                    SubSeq(bits, CodeLen(codebook, bits) + 1, Len(bits)),
                    Append(decoded,
                           SymbolOf(codebook, SubSeq(bits, 1, CodeLen(codebook, bits)))))

\* "".join(tokens)
RECURSIVE Detokenize(_)
Detokenize(tokens) ==
    IF tokens = <<>> THEN <<>> ELSE Head(tokens) \o Detokenize(Tail(tokens))

HuffOutput(d) ==
    [status |-> d.status,
     text |-> IF d.status = "ok" THEN Detokenize(d.tokens) ELSE <<>>]

\* encoded_text[:-padding] when padding > 0
StripPadding(encoded_text, padding) ==
    IF padding > 0 THEN Slice(encoded_text, 0, Len(encoded_text) - padding)
    ELSE encoded_text

\* decompress after deserialize_codebook returned remaining
DecompressRemaining(codebook, remaining) ==
    IF remaining = <<>> \/ codebook = <<>> THEN HuffOutput([status |-> "ValueError"])
    ELSE HuffOutput(HuffDecode(codebook,
                               StripPadding(Slice(remaining, 3, Len(remaining)),
                                            FromBin(Slice(remaining, 0, 3))),
                               <<>>))

\* deserialize_codebook(binary_string) with the length it read, then the
\* rest of decompress
DecompressFrom(binary_string, length, loaded) ==
    IF loaded.status # "ok" THEN HuffOutput(loaded)
    ELSE DecompressRemaining(loaded.codebook,
                             Slice(binary_string, LENGTH_BITS + length,
                                   Len(binary_string)))

DecompressLength(binary_string, length) ==
    DecompressFrom(binary_string, length,
                   JsonLoads(BinToChars(Slice(binary_string, LENGTH_BITS,
                                              LENGTH_BITS + length))))

\* Decompressor(Huffman()).decompress(binary_string)
HuffDecompress(binary_string) ==
    DecompressLength(binary_string, FromBin(Slice(binary_string, 0, LENGTH_BITS)))

(***************************************************************************)
(* HuffmanSpec: a text is compressed with a new Compressor and the bit     *)
(* string is decompressed with a new Decompressor.                         *)
(***************************************************************************)
\* a, e-acute, the space, the full stop and the quote
HuffChars == {97, 233, 32, 46, 34}

\* Texts of five and more distinct tokens: a e-acute."  and  aa e-acute."
\* and  e-acute a." aa
LongHuffTexts ==
    {<<97, 32, 233, 46, 34>>, <<97, 97, 32, 233, 46, 34>>,
     <<233, 32, 97, 46, 34, 32, 97, 97>>}

HuffTexts == SeqsUpTo(HuffChars, MaxHuffText) \cup LongHuffTexts

\* max_words: a limit of one word and the default
WordLimits == {1, 20}

HuffInit ==
    /\ coder = <<>>
    /\ word_to_id = EmptyMap
    /\ id_to_word = EmptyMap
    /\ word_frequencies = EmptyMap
    /\ max_vocab_size = 0
    /\ vocab_file = <<>>
    /\ call = NoCall

CompressToBinaryRecord(text, max_words, r) ==
    [op |-> "compress_to_binary", text |-> text, max_words |-> max_words,
     status |-> r.status, codebook |-> r.codebook, encoded |-> r.encoded,
     binary |-> r.binary]

\* Compressor(Huffman(), max_words).compress_to_binary(text)
CompressToBinaryCall(text, max_words) ==
    /\ call.op = "none"
    /\ call' = CompressToBinaryRecord(text, max_words,
                                      CompressToBinary(text, max_words))
    /\ UNCHANGED <<coder, compressorVars>>

HuffDecompressRecord(c, d) ==
    [op |-> "huffman_decompress", of |-> c.text, max_words |-> c.max_words,
     codebook |-> c.codebook, encoded |-> c.encoded, binary |-> c.binary,
     status |-> d.status, text |-> d.text]

\* Decompressor(Huffman()).decompress(binary) on what compress_to_binary
\* returned
HuffDecompressCall ==
    /\ call.op = "compress_to_binary" /\ call.status = "ok"
    /\ call' = HuffDecompressRecord(call, HuffDecompress(call.binary))
    /\ UNCHANGED <<coder, compressorVars>>

HuffmanNext ==
    \/ \E text \in HuffTexts, max_words \in WordLimits :
          CompressToBinaryCall(text, max_words)
    \/ HuffDecompressCall

HuffmanSpec == HuffInit /\ [][HuffmanNext]_vars

(***************************************************************************)
(* Properties of the coder (CoderSpec)                                     *)
(***************************************************************************)
\* a mapping from symbol ID to a positive integer weight
PositiveTable(frequencies) == \A s \in DOMAIN frequencies : frequencies[s] > 0

\* a finite, non-empty sequence of symbol IDs that have an entry in the table
ValidSymbols(c, symbols) ==
    /\ symbols # <<>>
    /\ \A i \in 1..Len(symbols) : HasSymbol(c, symbols[i])

Holding(c, v) ==
    {i \in 1..Len(c.cum_freq) : c.cum_freq[i].low <= v /\ v < c.cum_freq[i].high}

\* C4: for every ArithmeticCoder, the cumulative intervals [low, high) of
\* all symbols of the table, laid out in ascending symbol-ID order, are
\* pairwise disjoint and exactly cover [0, total_freq): each symbol of the
\* table has one interval, as wide as its frequency, the first starts at 0,
\* each next one starts where the one before ends, the last ends at
\* total_freq, and every integer v with 0 <= v < total_freq lies in the
\* interval of exactly one symbol, which is the one the decoder's lookup finds.
C4_Tiling ==
    coder # <<>> =>
        /\ {coder[1].cum_freq[i].symbol : i \in 1..Len(coder[1].cum_freq)}
               = DOMAIN coder[1].frequencies
        /\ \A i \in 1..Len(coder[1].cum_freq), j \in 1..Len(coder[1].cum_freq) :
               i < j => coder[1].cum_freq[i].symbol < coder[1].cum_freq[j].symbol
        /\ \A i \in 1..Len(coder[1].cum_freq) :
               /\ coder[1].cum_freq[i].low =
                      (IF i = 1 THEN 0 ELSE coder[1].cum_freq[i - 1].high)
               /\ coder[1].cum_freq[i].high - coder[1].cum_freq[i].low
                      = coder[1].frequencies[coder[1].cum_freq[i].symbol]
        /\ Len(coder[1].cum_freq) > 0 =>
               coder[1].cum_freq[Len(coder[1].cum_freq)].high = coder[1].total_freq
        /\ \A v \in 0..(coder[1].total_freq - 1) :
               /\ Cardinality(Holding(coder[1], v)) = 1
               /\ FindSymbol(coder[1], v) \in Holding(coder[1], v)
        /\ \A v \in (-1)..(coder[1].total_freq + 1) :
               (v < 0 \/ v >= coder[1].total_freq) => Holding(coder[1], v) = {}

\* C4, witness: the coder built from {0:1, 1:3, 2:2} holds the intervals
\* [0,1), [1,4), [4,6) of total_freq 6.
C4_Witness ==
    /\ coder # <<>>
    /\ call.op = "new"
    /\ call.frequencies = Table(0, <<1, 3, 2>>)
    /\ coder[1].total_freq = 6
    /\ coder[1].cum_freq = << [symbol |-> 0, low |-> 0, high |-> 1],
                             [symbol |-> 1, low |-> 1, high |-> 4],
                             [symbol |-> 2, low |-> 4, high |-> 6] >>

\* C6: decode(data, n) produces exactly n symbols or fails with
\* MalformedPayload: for every coder that can be constructed, every byte
\* string data and every n >= 1, decode never returns normally with fewer
\* than n symbols.
C6_DecodeCount ==
    (call.op = "decode" /\ call.num_symbols >= 1)
        => \/ call.status = "MalformedPayload"
           \/ (call.status = "ok" /\ Len(call.symbols) = call.num_symbols)

\* C9: constructing an ArithmeticCoder fails with EmptyModel whenever the
\* frequency table is empty or its frequencies sum to 0; no coder object
\* with total_freq = 0 is ever obtained.
C9_EmptyModel ==
    /\ (call.op = "new" /\ TotalOf(call.frequencies) = 0)
           => call.status = "EmptyModel"
    /\ coder # <<>> => coder[1].total_freq # 0

(***************************************************************************)
(* Properties of the compressor (Spec, HeaderSpec)                         *)
(***************************************************************************)
\* The compressor holds a trained vocabulary: at least one word, and a coder
\* whose table gives the escape symbol its weight of at least 1.
Trained ==
    /\ coder # <<>>
    /\ word_to_id # EmptyMap
    /\ HasSymbol(coder[1], ESCAPE_SYMBOL)
    /\ coder[1].frequencies[ESCAPE_SYMBOL] >= 1

\* C2: message-level round trip: under a trained TextCompressor, for every
\* text that compress accepts, tokenizing decompress(compress(text)) yields
\* exactly the token sequence of text.
C2_TokenRoundTrip ==
    (call.op = "roundtrip" /\ Trained /\ call.compress_status = "ok")
        => (call.status = "ok" /\ Tokenize(call.out_text) = Tokenize(call.text))

\* C3: escape correctness: for every message containing tokens absent from
\* the vocabulary, compress succeeds and decompress pairs the k-th decoded
\* escape symbol with the k-th sidecar entry, so each unknown token comes
\* back with exactly its original UTF-8 bytes, whatever its content or
\* byte length.
C3_EscapeRoundTrip ==
    (/\ call.op = "roundtrip"
     /\ Trained
     /\ \E i \in 1..Len(Tokenize(call.text)) :
            ~Known(word_to_id, Tokenize(call.text)[i]))
        => /\ call.compress_status = "ok"
           /\ call.status = "ok"
           /\ Len(call.out_words) = Len(Tokenize(call.text))
           /\ \A i \in 1..Len(call.out_words) :
                  ~Known(word_to_id, Tokenize(call.text)[i])
                      => Utf8Encode(call.out_words[i])
                             = Utf8Encode(Tokenize(call.text)[i])

\* The sidecar the format prescribes: for each unknown token in order of
\* occurrence, one length byte followed by exactly that many UTF-8 bytes.
RECURSIVE ExpectedSidecar(_, _)
ExpectedSidecar(w2id, tokens) ==
    IF tokens = <<>> THEN <<>>
    ELSE (IF Head(tokens) \in DOMAIN w2id THEN <<>>
          ELSE <<Len(Utf8Encode(Head(tokens)))>> \o Utf8Encode(Head(tokens)))
         \o ExpectedSidecar(w2id, Tail(tokens))

\* The value of the three bytes of data from position at (1-based),
\* big-endian.
BigEndian3(data, at) == data[at] * 65536 + data[at + 1] * 256 + data[at + 2]

\* C5: container format: for every text, compress (of a trained
\* TextCompressor) returns exactly
\* [count: 3 bytes big-endian][enc_len: 3 bytes big-endian][payload][sidecar],
\* count being the number of tokens of the text, enc_len the byte length of
\* ArithmeticCoder.encode's output, which follows as payload, and the
\* sidecar holding, for each unknown token in order of occurrence, one
\* length byte followed by exactly that many UTF-8 bytes.
C5_Container ==
    (call.op = "compress" /\ Trained)
        => /\ call.status = "ok"
           /\ Len(call.data) >= 6
           /\ BigEndian3(call.data, 1) = Len(Tokenize(call.text))
           /\ BigEndian3(call.data, 4) = Len(call.encoded)
           /\ call.encoded = Encode(coder[1], call.symbols).data
           /\ call.data = SubSeq(call.data, 1, 6) \o call.encoded
                              \o ExpectedSidecar(word_to_id, Tokenize(call.text))
           /\ \A i \in 1..Len(call.data) : call.data[i] \in 0..255

\* The container has fewer than enc_len payload bytes after its header.
PayloadShort(compressed) ==
    /\ Len(compressed) >= 6
    /\ Len(compressed) - 6 < BigEndian3(compressed, 4)

\* The sidecar side, read from offset (0-based), holds an entry of the
\* length its prefix announces for each escape symbol among symbols.
RECURSIVE SidecarHolds(_, _, _)
SidecarHolds(symbols, side, offset) ==
    IF symbols = <<>> THEN TRUE
    ELSE IF Head(symbols) # ESCAPE_SYMBOL THEN SidecarHolds(Tail(symbols), side, offset)
    ELSE /\ offset < Len(side)
         /\ offset + 1 + side[offset + 1] <= Len(side)
         /\ SidecarHolds(Tail(symbols), side, offset + 1 + side[offset + 1])

\* The sidecar holds fewer entries or bytes than the decoded escape
\* symbols and their length prefixes require.
SidecarShort(compressed, symbols) ==
    /\ Len(compressed) >= 6
    /\ ~SidecarHolds(symbols,
                     Slice(compressed, 6 + BigEndian3(compressed, 4), Len(compressed)),
                     0)

\* C7: decompress (of a trained TextCompressor) fails with MalformedPayload on an inconsistent container:
\* whenever the input has fewer than enc_len payload bytes after the 6-byte
\* header, or the sidecar holds fewer entries or bytes than the decoded
\* escape symbols and their length prefixes require, decompress reports a
\* failure instead of returning text.
C7_Malformed ==
    (/\ call.op = "decompress"
     /\ Trained
     /\ \/ PayloadShort(call.compressed)
        \/ SidecarShort(call.compressed, call.symbols))
        => call.status = "MalformedPayload"

\* C10: train fails with InvalidCorpus whenever the corpus yields zero
\* tokens (an empty list, or only strings without any token), and then
\* builds no vocabulary and no coder.
C10_InvalidCorpus ==
    [][(call'.op = "train" /\ call'.tokens = 0)
           => /\ call'.status = "InvalidCorpus"
              /\ UNCHANGED <<coder, word_to_id, id_to_word, word_frequencies,
                             vocab_file>>]_vars

\* C8: compress fails with InputTooLarge, producing no output, whenever the
\* symbol count or the encoded-payload length exceeds what a 3-byte header
\* field holds (16,777,215); it never writes a header whose count or length
\* field is the true value wrapped modulo 2^24.
C8_InputTooLarge ==
    call.op = "header" =>
        IF call.num_symbols > FIELD_MAX \/ call.encoded_len > FIELD_MAX
        THEN call.status = "InputTooLarge" /\ call.header = <<>>
        ELSE /\ call.parsed_symbols = call.num_symbols
             /\ call.parsed_len = call.encoded_len

\* ---------------------------------------------------------------------
\* C11  train result
\* ---------------------------------------------------------------------

\* The number of occurrences of word in the corpus of the train call.
CorpusCount(word) == Occurrences(AllTokens(call.texts), word)

CorpusWords == {AllTokens(call.texts)[i] : i \in 1..Len(AllTokens(call.texts))}

Eligible == {w \in CorpusWords : CorpusCount(w) >= call.min_frequency}

Vocabulary == DOMAIN word_to_id

\* The occurrences of the tokens that got no ID.
ExcludedOccurrences ==
    Cardinality({i \in 1..Len(AllTokens(call.texts)) :
                   AllTokens(call.texts)[i] \notin Vocabulary})

\* C11: after train(corpus, min_frequency) on a compressor of maximum size
\* M >= 1 the vocabulary holds N = min(M - 1, number of tokens with count >=
\* min_frequency) of those tokens, none of them rarer than one left out; they
\* have the IDs 1..N in descending-count order, frequencies[id] is the
\* token's count, and frequencies[0] = max(1, excluded occurrences div 10).
C11_TrainResult ==
    (call.op = "train" /\ call.status = "ok") =>
        /\ Vocabulary \subseteq Eligible
        /\ Cardinality(Vocabulary) = Min({max_vocab_size - 1, Cardinality(Eligible)})
        /\ \A w \in Vocabulary : \A v \in Eligible \ Vocabulary :
               CorpusCount(v) <= CorpusCount(w)
        /\ {word_to_id[w] : w \in Vocabulary} = 1..Cardinality(Vocabulary)
        /\ \A w \in Vocabulary : \A v \in Vocabulary :
               word_to_id[w] < word_to_id[v] => CorpusCount(w) >= CorpusCount(v)
        /\ DOMAIN word_frequencies = 0..Cardinality(Vocabulary)
        /\ \A w \in Vocabulary : word_frequencies[word_to_id[w]] = CorpusCount(w)
        /\ word_frequencies[0] =
               (IF ExcludedOccurrences \div 10 > 1
                THEN ExcludedOccurrences \div 10 ELSE 1)

\* A training that cut the list of eligible tokens and gave the escape a
\* weight above 1.
C11_Witness ==
    /\ call.op = "train" /\ call.status = "ok"
    /\ Cardinality(Vocabulary) = 1
    /\ Cardinality(Eligible) > 1
    /\ word_frequencies[0] = 2

\* ---------------------------------------------------------------------
\* C12  model consistency
\* ---------------------------------------------------------------------

AssignedIds == {word_to_id[w] : w \in DOMAIN word_to_id}

\* id_to_word is the inverse of word_to_id plus 0 -> '<UNK>'.
InverseWithUnk ==
    /\ ESCAPE_SYMBOL \notin AssignedIds
    /\ \A w \in DOMAIN word_to_id : \A v \in DOMAIN word_to_id :
           word_to_id[w] = word_to_id[v] => w = v
    /\ DOMAIN id_to_word = {ESCAPE_SYMBOL} \cup AssignedIds
    /\ id_to_word[ESCAPE_SYMBOL] = UNK
    /\ \A w \in DOMAIN word_to_id : id_to_word[word_to_id[w]] = w

\* Escape weight >= 1 and a positive weight for every assigned ID.
WeightsPresent ==
    /\ ESCAPE_SYMBOL \in DOMAIN word_frequencies
    /\ word_frequencies[ESCAPE_SYMBOL] >= 1
    /\ \A i \in AssignedIds :
           i \in DOMAIN word_frequencies /\ word_frequencies[i] > 0

\* The coder was built from the current word_frequencies.
CoderCurrent ==
    /\ coder # <<>>
    /\ coder[1].total_freq = TotalOf(word_frequencies)
    /\ {coder[1].cum_freq[i].symbol : i \in 1..Len(coder[1].cum_freq)}
          = DOMAIN word_frequencies

Consistent == InverseWithUnk /\ WeightsPresent /\ CoderCurrent

Alone(c, th) ==
    IF th.kind = "encode" THEN Encode(c, th.symbols)
    ELSE Decode(c, th.data, th.num_symbols)

\* C13: for any interleaving of the steps of two encode/decode calls on the
\* same ArithmeticCoder, a call that returns, returns what it returns when
\* run alone, a call stays in its loop only if it does so alone, and no
\* step writes the coder's cumulative table or total_freq.
C13_ConcurrentUse ==
    /\ [](\A i \in Threads :
            /\ call.threads[i].pc = "done" =>
                  call.threads[i].out = <<Alone(coder[1], call.threads[i])>>
            /\ call.threads[i].pc = "diverged" =>
                  Alone(coder[1], call.threads[i]).status = "diverges")
    /\ [][coder' = coder]_vars

\* Both calls, an encode and a decode of different lengths, have returned
\* after running on the same coder.
C13_Witness ==
    /\ call.threads[1].pc = "done" /\ call.threads[2].pc = "done"
    /\ call.threads[1].kind = "encode" /\ call.threads[2].kind = "decode"
    /\ call.threads[1].symbols = <<2, 2, 1, 0>>
    /\ call.threads[2].num_symbols = 3
    /\ call.threads[1].out[1].status = "ok"
    /\ call.threads[2].out[1].symbols = <<1, 1, 2>>

\* ---------------------------------------------------------------------
\* C14  a failed call leaves the state unchanged
\* ---------------------------------------------------------------------

\* The call just made is a compress, decompress or round trip that raised.
Failed(c) ==
    c.op \in {"compress", "decompress", "roundtrip"} /\ c.status # "ok"

\* What the call handed back to its caller.
Output(c) ==
    IF c.op = "compress" THEN c.data
    ELSE IF c.op = "decompress" THEN c.text
    ELSE c.out_text

\* The symbols of a compress call include one the coder has no entry for.
UnknownSymbolMet(c, cdr) ==
    /\ c.op = "compress" /\ cdr # <<>>
    /\ \E k \in 1..Len(c.symbols) : ~HasSymbol(cdr[1], c.symbols[k])

\* C14: a compress or decompress call that fails (with the encode or decode
\* inside it) returns nothing and leaves word_to_id, id_to_word,
\* word_frequencies and the coder as they were; encode fails, with
\* ValueError("Unknown symbol"), whenever a symbol has no entry in the
\* cumulative table.
C14_FailureFrame ==
    [][ /\ Failed(call') =>
             /\ Output(call') = <<>>
             /\ UNCHANGED <<word_to_id, id_to_word, word_frequencies, coder>>
        /\ UnknownSymbolMet(call', coder) => call'.status = "ValueError"
      ]_vars

\* A compress whose encode met a symbol without entry in the table of the
\* coder that load_vocab built, and returned nothing.
C14_Witness ==
    /\ UnknownSymbolMet(call, coder)
    /\ call.status = "ValueError"
    /\ call.data = <<>>
    /\ vocab_file # <<>>

\* ---------------------------------------------------------------------
\* C15  termination (CoderSpec)
\* ---------------------------------------------------------------------

\* The shifts of the encoder's renormalization loop after the k-th symbol.
EncShiftsAt(c, symbols, k) ==
    EncLoop(c, SubSeq(symbols, 1, k), EncInit).shifts
      - EncLoop(c, SubSeq(symbols, 1, k - 1), EncInit).shifts

\* The shifts of the decoder's renormalization loop after the k-th symbol.
DecShiftsAt(c, bits, k) ==
    DecLoop(c, bits, k, DecInit(bits)).shifts
      - DecLoop(c, bits, k - 1, DecInit(bits)).shifts

\* The call of the state returned or raised, and no renormalization loop
\* of it made more than PRECISION_BITS shifts.
ReturnsInBoundedShifts ==
    /\ call.status # "diverges"
    /\ call.op \in {"encode", "roundtrip"} =>
          \A k \in 1..Len(call.symbols) :
             EncShiftsAt(coder[1], call.symbols, k) <= PRECISION_BITS
    /\ call.op = "decode" =>
          \A k \in 1..call.num_symbols :
             DecShiftsAt(coder[1], UnpackBits(call.data), k) <= PRECISION_BITS
    /\ (call.op = "roundtrip" /\ call.status = "ok") =>
          \A k \in 1..Len(call.symbols) :
             DecShiftsAt(coder[1], UnpackBits(call.data), k) <= PRECISION_BITS

CaseE1(low, high) == high < HALF

CaseE2(low, high) == low >= HALF

CaseE3(low, high) == QUARTER <= low /\ high < THREE_QUARTERS

CasesHolding(low, high) ==
    (IF CaseE1(low, high) THEN 1 ELSE 0) + (IF CaseE2(low, high) THEN 1 ELSE 0)
      + (IF CaseE3(low, high) THEN 1 ELSE 0)

\* The registers on which the renormalization loop tests its cases, from st
\* to the pass that breaks.
RECURSIVE RenormVisits(_)
RenormVisits(st) ==
    {st} \cup (IF Diverges(st.low, st.high)
                   \/ RenormCase(st.low, st.high) = "break"
                THEN {} ELSE RenormVisits(EncRenormStep(st)))

\* The encoder's registers after the first k symbols and their loops.
EncAfter(c, symbols, k) == EncLoop(c, SubSeq(symbols, 1, k), EncInit)

\* The registers at every step of the k-th symbol: after its narrowing and
\* after each shift.
EncVisits(c, symbols, k) ==
    RenormVisits(EncNarrow(c, EncAfter(c, symbols, k - 1), symbols[k]))

\* The interval left by a renormalization loop.
Renormalized(c, st) ==
    /\ 0 <= st.low /\ st.low < HALF /\ HALF <= st.high /\ st.high <= MAX_RANGE
    /\ ~(QUARTER <= st.low /\ st.high < THREE_QUARTERS)
    /\ st.high - st.low + 1 > QUARTER
    /\ \A i \in 1..Len(c.cum_freq) :
          NarrowLow(st.low, st.high, c.cum_freq[i].low, c.total_freq)
            <= NarrowHigh(st.low, st.high, c.cum_freq[i].high, c.total_freq)

InRegister(st) ==
    /\ 0 <= st.low /\ st.low <= MAX_RANGE
    /\ 0 <= st.high /\ st.high <= MAX_RANGE

\* The branch the loop takes is the first case, in the order E1, E2, E3,
\* whose condition holds; E1 and E2 never hold together.
FirstCaseTaken(low, high) ==
    /\ ~(CaseE1(low, high) /\ CaseE2(low, high))
    /\ RenormCase(low, high) = "E1" <=> CaseE1(low, high)
    /\ RenormCase(low, high) = "E2" <=> CaseE2(low, high)
    /\ RenormCase(low, high) = "E3" <=>
          (CaseE3(low, high) /\ ~CaseE1(low, high) /\ ~CaseE2(low, high))

\* An encode or round trip of symbols of a table of positive frequencies
\* whose total does not exceed QUARTER.
EncodesWithinPrecision ==
    /\ call.op \in {"encode", "roundtrip"}
    /\ PositiveTable(coder[1].frequencies)
    /\ coder[1].total_freq <= QUARTER
    /\ \A k \in 1..Len(call.symbols) : HasSymbol(coder[1], call.symbols[k])

\* C16 as stated: for a table of positive frequencies whose total does not
\* exceed QUARTER, after the renormalization loop of each symbol
\* 0 <= low < HALF <= high <= 2^P - 1, not (QUARTER <= low and high <
\* THREE_QUARTERS), high - low + 1 > QUARTER and every symbol's next
\* sub-interval is non-empty; low and high stay in [0, 2^P - 1] at every
\* step, and at most one of the three cases' conditions holds of any
\* (low, high) the loop tests.
C16_IntervalInvariant ==
    EncodesWithinPrecision =>
        \A k \in 1..Len(call.symbols) :
            /\ Renormalized(coder[1], EncAfter(coder[1], call.symbols, k))
            /\ \A st \in EncVisits(coder[1], call.symbols, k) :
                  InRegister(st) /\ CasesHolding(st.low, st.high) <= 1

\* C16, amended: the same, but of the three cases the loop takes the first,
\* in the order E1, E2, E3, whose condition holds: E1 and E2 never hold
\* together, while the condition of E3 can hold together with that of E1
\* or of E2.
C16_IntervalInvariantOrdered ==
    EncodesWithinPrecision =>
        \A k \in 1..Len(call.symbols) :
            /\ Renormalized(coder[1], EncAfter(coder[1], call.symbols, k))
            /\ \A st \in EncVisits(coder[1], call.symbols, k) :
                  InRegister(st) /\ FirstCaseTaken(st.low, st.high)

\* An encode within the precision whose loop tested registers satisfying
\* the conditions of E1 and E3 at once, and others satisfying E3 alone.
C16_Witness ==
    /\ EncodesWithinPrecision /\ call.status = "ok"
    /\ \E k \in 1..Len(call.symbols) :
          /\ \E st \in EncVisits(coder[1], call.symbols, k) :
                CaseE1(st.low, st.high) /\ CaseE3(st.low, st.high)
          /\ \E st \in EncVisits(coder[1], call.symbols, k) :
                RenormCase(st.low, st.high) = "E3"

\* ---------------------------------------------------------------------
\* C17  the decoder mirrors the encoder (CoderSpec)
\* ---------------------------------------------------------------------

\* The decoder's registers after the first k symbols of bits.
DecAfter(c, bits, k) == DecLoop(c, bits, k, DecInit(bits))

\* The decoder after k symbols is where the encoder enc was after k symbols.
Mirrors(dec, enc, k) ==
    /\ dec.status = "ok" /\ Len(dec.symbols) = k
    /\ dec.low = enc.low /\ dec.high = enc.high
    /\ dec.shifts = enc.shifts
    /\ dec.bit_index = PRECISION_BITS + dec.shifts
    /\ dec.low <= dec.value /\ dec.value <= dec.high

\* C17: when decode runs on what encode(S) returned, with the same table,
\* then for every k <= len(S) the decoder after its k-th symbol has the
\* encoder's low and high after its k-th symbol, has made as many shifts,
\* has read one bit per shift (bits past the end of the input read as 0),
\* and low <= value <= high.
C17_DecoderMirrors ==
    (call.op = "roundtrip" /\ Encode(coder[1], call.symbols).status = "ok") =>
        \A k \in 0..Len(call.symbols) :
            Mirrors(DecAfter(coder[1], UnpackBits(call.data), k),
                    EncAfter(coder[1], call.symbols, k), k)

\* A round trip of four symbols in which shifts were made in the E3 case
\* and the decoder read past the end of its input.
C17_Witness ==
    /\ call.op = "roundtrip" /\ call.status = "ok"
    /\ Len(call.symbols) = 4 /\ call.decoded = call.symbols
    /\ \E st \in EncVisits(coder[1], call.symbols, 2) :
          RenormCase(st.low, st.high) = "E3"
    /\ DecAfter(coder[1], UnpackBits(call.data), 4).bit_index
          > Len(UnpackBits(call.data))

\* ---------------------------------------------------------------------
\* C18  flush and packing (CoderSpec)
\* ---------------------------------------------------------------------

\* The bit the flush starts with.
FlushBit(st) == IF st.low < QUARTER THEN 0 ELSE 1

\* All bits encode emitted when its loop ended in st: those of the
\* renormalization loops, the bit b and pending + 1 complements of b.
Emitted(st) ==
    st.bits \o <<FlushBit(st)>>
      \o [j \in 1..(st.pending_bits + 1) |-> 1 - FlushBit(st)]

\* Bit i (from 1) of data, each byte taken most-significant bit first.
DataBit(data, i) == (data[((i - 1) \div 8) + 1] \div Pow2(7 - ((i - 1) % 8))) % 2

\* data is bits followed by fewer than 8 zero bits, packed 8 per byte.
PacksTo(data, bits) ==
    /\ \A i \in 1..Len(data) : data[i] \in 0..255
    /\ 8 * Len(data) >= Len(bits) /\ 8 * Len(data) - Len(bits) < 8
    /\ \A i \in 1..(8 * Len(data)) :
          DataBit(data, i) = (IF i <= Len(bits) THEN bits[i] ELSE 0)

\* C18: an encode that returns has emitted, after the bits of its
\* renormalization loops, one bit b (0 if the final low < QUARTER, else 1)
\* and pending + 1 complements of b; the emitted bits are as many as the
\* shifts plus 2; the returned bytes are these bits followed by fewer than 8
\* zero bits, packed 8 per byte most-significant bit first, and are never
\* empty.
C18_FlushAndPacking ==
    (call.op = "encode" /\ call.status = "ok") =>
        /\ Len(Emitted(EncAfter(coder[1], call.symbols, Len(call.symbols))))
              = EncAfter(coder[1], call.symbols, Len(call.symbols)).shifts + 2
        /\ PacksTo(call.data,
                   Emitted(EncAfter(coder[1], call.symbols, Len(call.symbols))))
        /\ call.data # <<>>

\* An encode that ended with pending bits and low >= QUARTER, and whose
\* bits did not fill the last byte.
C18_Witness ==
    /\ call.op = "encode" /\ call.status = "ok"
    /\ EncAfter(coder[1], call.symbols, Len(call.symbols)).pending_bits > 0
    /\ EncAfter(coder[1], call.symbols, Len(call.symbols)).low >= QUARTER
    /\ EncAfter(coder[1], call.symbols, Len(call.symbols)).shifts % 8 # 6
    /\ Len(call.data) > 1


(***************************************************************************)
(* Properties of the Huffman codec (HuffmanSpec)                           *)
(***************************************************************************)
IsPrefix(a, b) == Len(a) <= Len(b) /\ SubSeq(b, 1, Len(a)) = a

PrefixFree(codebook) ==
    \A i, j \in 1..Len(codebook) :
        i # j => ~IsPrefix(codebook[i].code, codebook[j].code)

LoneTokenCode(codebook) == Len(codebook) = 1 => codebook[1].code = <<48>>

\* The fields of the bit string, for the serialized codebook cb and p
\* padding zeros.
LaidOut(c, cb, p) ==
    /\ Len(FormatBin(Len(cb), LENGTH_BITS)) = LENGTH_BITS
    /\ c.binary = FormatBin(Len(cb), LENGTH_BITS) \o cb \o FormatBin(p, 3)
                    \o c.encoded \o Repeat(48, p)

Compressed(c) ==
    /\ c.status = "ok"
    /\ PrefixFree(c.codebook)
    /\ LoneTokenCode(c.codebook)
    /\ Len(c.binary) % 8 = 0
    /\ \E p \in 0..7 : LaidOut(c, CharsToBin(JsonDumps(c.codebook)), p)

WithinWordLimit(c) == c.text # <<>> /\ WordCount(c.text) <= c.max_words

\* The serialized codebook is short enough for its length to be written in
\* the length field.
FitsLengthField(c) == 8 * Len(JsonDumps(c.codebook)) < Pow2(LENGTH_BITS)

\* C19: Huffman codec round trip.  For every non-empty text within the word
\* limit, train builds a prefix-free codebook (a lone distinct token gets
\* code "0"), compress_to_binary returns a bit string whose length is a
\* multiple of 8 and that is laid out as the codebook length in LENGTH_BITS
\* bits, the serialized codebook, the 3-bit padding count, the code bits and
\* the padding zeros, and decompress of that string with a new Huffman
\* instance returns exactly the original text.
C19_HuffmanRoundTrip ==
    /\ (call.op = "compress_to_binary" /\ WithinWordLimit(call)) => Compressed(call)
    /\ call.op = "huffman_decompress" => call.status = "ok" /\ call.text = call.of

\* The same for the texts whose serialized codebook fits the length field;
\* the codebook is prefix-free and the length a multiple of 8 for all texts.
HuffmanRoundTripWithinLength ==
    /\ (call.op = "compress_to_binary" /\ WithinWordLimit(call))
          => /\ call.status = "ok"
             /\ PrefixFree(call.codebook) /\ LoneTokenCode(call.codebook)
             /\ Len(call.binary) % 8 = 0
             /\ FitsLengthField(call) => Compressed(call)
    /\ (call.op = "huffman_decompress" /\ FitsLengthField(call))
          => call.status = "ok" /\ call.text = call.of

\* A text of five distinct tokens has come back from the round trip; its
\* codebook has codes of two lengths.
HuffmanRoundTripReached ==
    /\ call.op = "huffman_decompress" /\ call.status = "ok"
    /\ Len(call.codebook) = 5 /\ call.text = call.of
    /\ \E i, j \in 1..5 : Len(call.codebook[i].code) < Len(call.codebook[j].code)

\* A codebook too long for the length field: the field has one digit more
\* and decompress fails on what it takes for the codebook.
LengthFieldOverflows ==
    /\ call.op = "huffman_decompress" /\ ~FitsLengthField(call)
    /\ Len(FormatBin(8 * Len(JsonDumps(call.codebook)), LENGTH_BITS)) = LENGTH_BITS + 1
    /\ call.status = "JSONDecodeError"

====
